---- MODULE Spec2Model ----
(***************************************************************************)
(* Model of mooltipage's document tree utilities (detatchNode,            *)
(* appendChild, appendSibling, replaceNode, swapNode, clone*, ...), of the *)
(* PipelineCache and of the StandardPipeline operations (compilePage,      *)
(* compileFragment, compileComponent, compileExpression, compileScript,    *)
(* compileExternalScript, linkResource, reset).                            *)
(*                                                                         *)
(* Nodes are heap objects named by positive integers; 0 is null.  The     *)
(* fields of the Node objects are the variables nodeType, nodeData,       *)
(* attributes, parentNode, childNodes, prevSibling and nextSibling, each  *)
(* a function over the pool of node identities.  A node whose nodeType is *)
(* "Free" has not been constructed yet.  The attribute Map of a tag is an  *)
(* object of its own: attributes[n] names it and attrMap holds its         *)
(* entries.                                                                *)
(***************************************************************************)
EXTENDS Integers, Sequences, FiniteSets, TLC

\* Size of the pool of node identities (DOM specification).
MaxNodes == 4
\* Number of nodes the operations may construct (DOM specification).
MaxAlloc == 1
\* Longest node list passed to appendChildNodes / replaceNode.
MaxList == 2

\* Number of nodes of the tree that is cloned (clone specification).
CloneNodes == 3

\* Number of calls made on a tree after the clone (clone specification) or
\* on the fragments a pipeline has handed out (pipeline specification).
MaxMutations == 2

\* Number of fragments one pipeline hands out (pipeline specification).
MaxCompiles == 2
\* Size of the pool of node identities (pipeline specification).
PipelineNodes == 10

\* Longest text of an expression or a script.
MaxText == 3
\* Number of store and clear calls made on one cache (cache specification).
MaxCacheOps == 2
\* Number of objects stored under one key (cache specification).
MaxObjects == 2
\* Number of operations one pipeline serves (service specification).
MaxCalls == 3

VARIABLES
    nodeType,     \* Node.nodeType, or "Free" for an identity not yet constructed
    nodeData,     \* the constructor arguments kept by the node: tagName, text, src, ...
    attributes,   \* TagNode.attributes: the identity of the node's Map (0 = none)
    attrMap,      \* the entries of each attribute Map, by Map identity
    parentNode,   \* Node.parentNode (0 = null)
    childNodes,   \* NodeWithChildren.childNodes, an ordered list
    prevSibling,  \* Node.prevSibling (0 = null)
    nextSibling,  \* Node.nextSibling (0 = null)
    last,         \* the observed call: its name, arguments, outcome and the heap before it
    cloned,       \* the clone under inspection: original, copy and the heap before it
    cache,        \* StandardPipeline.cache: the maps of the PipelineCache
    pipe          \* the pipeline's calls: compiles in progress, fragments handed out,
                  \* the trace of the calls made; the call history of a cache

vars == <<nodeType, nodeData, attributes, attrMap, parentNode, childNodes,
          prevSibling, nextSibling, last, cloned, cache, pipe>>

Null == 0

Nodes == DOMAIN nodeType

\* The nodes that have been constructed.
Live == {n \in Nodes : nodeType[n] # "Free"}

\* The fields of all nodes, as one value the operations transform.
Heap ==
    [nodeType |-> nodeType, nodeData |-> nodeData,
     attributes |-> attributes, attrMap |-> attrMap,
     parentNode |-> parentNode, childNodes |-> childNodes,
     prevSibling |-> prevSibling, nextSibling |-> nextSibling]

\* The link fields of the nodes of h.
Links(h) ==
    [parentNode |-> h.parentNode, childNodes |-> h.childNodes,
     prevSibling |-> h.prevSibling, nextSibling |-> h.nextSibling]

\* DocumentNode.isDocumentNode, NodeWithChildren.isNodeWithChildren, TagNode.isTagNode
isDocumentNode(h, n) == h.nodeType[n] = "Document"

isTagNode(h, n) == h.nodeType[n] \in {"Tag", "MImport"}

isNodeWithChildren(h, n) == isDocumentNode(h, n) \/ isTagNode(h, n)

WithChildren == {n \in Live : isNodeWithChildren(Heap, n)}

(***************************************************************************)
(* JavaScript array primitives used by the utilities.                      *)
(***************************************************************************)
\* Array.prototype.filter(c => c !== node)
Without(s, node) == SelectSeq(s, LAMBDA c : c # node)

\* Array.prototype.includes
Includes(s, node) == \E i \in 1..Len(s) : s[i] = node

\* Array.prototype.indexOf: zero-based index of the first occurrence, or -1
IndexOf(s, node) ==
    IF Includes(s, node)
    THEN (CHOOSE i \in 1..Len(s) : s[i] = node /\ \A j \in 1..(i - 1) : s[j] # node) - 1
    ELSE -1

\* Array.prototype.splice(start, 0, node) with 0 <= start <= length
Splice(s, start, node) == SubSeq(s, 1, start) \o <<node>> \o SubSeq(s, start + 1, Len(s))

\* The start index splice uses: a negative start counts from the end, clamped to 0
SpliceStart(s, start) ==
    IF start >= 0 THEN start
    ELSE IF Len(s) + start > 0 THEN Len(s) + start ELSE 0

getFirstNode(s) == IF Len(s) > 0 THEN s[1] ELSE Null

getLastNode(s) == IF Len(s) > 0 THEN s[Len(s)] ELSE Null

(***************************************************************************)
(* detatchNode(node): statement by statement.  Each statement is a local   *)
(* operator from the heap before it to the heap after it.                  *)
(***************************************************************************)
\* Mutant: the neighbours of the detached node are not linked to each other.
detatchNode_NoRelink(h, node) ==
    LET unlist(g) ==
            IF g.parentNode[node] # Null
            THEN [g EXCEPT !.childNodes[g.parentNode[node]] = Without(@, node)]
            ELSE g
        reset(g) ==
            [g EXCEPT !.prevSibling[node] = Null,
                      !.nextSibling[node] = Null,
                      !.parentNode[node] = Null]
    IN  reset(unlist(h))

\* Mutant: node.prevSibling is not reset.
detatchNode_KeepsPrev(h, node) ==
    LET unlist(g) ==
            IF g.parentNode[node] # Null
            THEN [g EXCEPT !.childNodes[g.parentNode[node]] = Without(@, node)]
            ELSE g
        linkPrev(g) ==
            IF g.prevSibling[node] # Null
            THEN [g EXCEPT !.nextSibling[g.prevSibling[node]] = g.nextSibling[node]]
            ELSE g
        linkNext(g) ==
            IF g.nextSibling[node] # Null
            THEN [g EXCEPT !.prevSibling[g.nextSibling[node]] = g.prevSibling[node]]
            ELSE g
        reset(g) ==
            [g EXCEPT !.nextSibling[node] = Null,
                      !.parentNode[node] = Null]
    IN  reset(linkNext(linkPrev(unlist(h))))

detatchNode(h, node) ==
    LET \* node.parentNode.childNodes = node.parentNode.childNodes.filter(...)
        unlist(g) ==
            IF g.parentNode[node] # Null
            THEN [g EXCEPT !.childNodes[g.parentNode[node]] = Without(@, node)]
            ELSE g
        \* node.prevSibling.nextSibling = node.nextSibling
        linkPrev(g) ==
            IF g.prevSibling[node] # Null
            THEN [g EXCEPT !.nextSibling[g.prevSibling[node]] = g.nextSibling[node]]
            ELSE g
        \* node.nextSibling.prevSibling = node.prevSibling
        linkNext(g) ==
            IF g.nextSibling[node] # Null
            THEN [g EXCEPT !.prevSibling[g.nextSibling[node]] = g.prevSibling[node]]
            ELSE g
        reset(g) ==
            [g EXCEPT !.prevSibling[node] = Null,
                      !.nextSibling[node] = Null,
                      !.parentNode[node] = Null]
    IN  reset(linkNext(linkPrev(unlist(h))))

hasChild(h, parent, child) == Includes(h.childNodes[parent], child)

(***************************************************************************)
(* appendChild(parent, child) and prependChild(parent, child).             *)
(***************************************************************************)
\* Mutant: the child is not detached from its former parent first.
appendChild_NoDetach(h, parent, child) ==
    LET link(g, lastChild) ==
            IF lastChild # Null
            THEN [g EXCEPT !.nextSibling[lastChild] = child,
                           !.prevSibling[child] = lastChild]
            ELSE g
        push(g) ==
            [g EXCEPT !.childNodes[parent] = Append(@, child),
                      !.parentNode[child] = parent]
        afterDetach(g) == push(link(g, getLastNode(g.childNodes[parent])))
    IN  afterDetach(h)

appendChild(h, parent, child) ==
    LET \* lastChild.nextSibling = child; child.prevSibling = lastChild
        link(g, lastChild) ==
            IF lastChild # Null
            THEN [g EXCEPT !.nextSibling[lastChild] = child,
                           !.prevSibling[child] = lastChild]
            ELSE g
        \* parent.childNodes.push(child); child.parentNode = parent
        push(g) ==
            [g EXCEPT !.childNodes[parent] = Append(@, child),
                      !.parentNode[child] = parent]
        afterDetach(g) == push(link(g, getLastNode(g.childNodes[parent])))
    IN  afterDetach(detatchNode(h, child))

prependChild(h, parent, child) ==
    LET \* firstChild.prevSibling = child; child.nextSibling = firstChild
        link(g, firstChild) ==
            IF firstChild # Null
            THEN [g EXCEPT !.prevSibling[firstChild] = child,
                           !.nextSibling[child] = firstChild]
            ELSE g
        \* parent.childNodes.splice(0, 0, child); child.parentNode = parent
        unshift(g) ==
            [g EXCEPT !.childNodes[parent] = Splice(@, 0, child),
                      !.parentNode[child] = parent]
        afterDetach(g) == unshift(link(g, getFirstNode(g.childNodes[parent])))
    IN  afterDetach(detatchNode(h, child))

(***************************************************************************)
(* clear(parent): detaches every element of a copy of parent.childNodes.   *)
(***************************************************************************)
RECURSIVE detatchAll(_, _)
detatchAll(h, nodes) ==
    IF nodes = <<>> THEN h
    ELSE detatchAll(detatchNode(h, Head(nodes)), Tail(nodes))

clear(h, parent) == detatchAll(h, h.childNodes[parent])

(***************************************************************************)
(* appendChildNodes(parent, childNodes).  The loop runs over the array it  *)
(* was handed.  detatchNode replaces the array of the child's parent by a  *)
(* filtered copy before appendChild pushes to the new parent, so an array  *)
(* that satisfies ChildListsMatchParents is never changed while the loop   *)
(* runs over it, and the loop sees the elements it was handed.             *)
(***************************************************************************)
RECURSIVE appendChildNodes(_, _, _)
appendChildNodes(h, parent, nodes) ==
    IF nodes = <<>> THEN h
    ELSE appendChildNodes(appendChild(h, parent, Head(nodes)), parent, Tail(nodes))

(***************************************************************************)
(* appendSibling(node, after) and prependSibling(node, before).  The       *)
(* result is the heap and whether the call threw; a throw happens before   *)
(* any assignment.                                                         *)
(***************************************************************************)
\* Mutant: the node is detached before the reference node is checked.
appendSibling_DetachFirst(h, node, after) ==
    LET insert(g, parent) ==
            IF parent # Null
            THEN [g EXCEPT !.parentNode[node] = parent,
                           !.childNodes[parent] = Splice(@, IndexOf(@, after) + 1, node)]
            ELSE g
        linkNext(g, next) ==
            IF next # Null
            THEN [g EXCEPT !.nextSibling[node] = next,
                           !.prevSibling[next] = node]
            ELSE g
        linkPrev(g) ==
            [g EXCEPT !.nextSibling[after] = node,
                      !.prevSibling[node] = after]
        afterInsert(g) == linkPrev(linkNext(g, g.nextSibling[after]))
        afterDetach(g) ==
            IF isDocumentNode(g, after) THEN [h |-> g, threw |-> TRUE]
            ELSE [h |-> afterInsert(insert(g, g.parentNode[after])), threw |-> FALSE]
    IN  afterDetach(detatchNode(h, node))

appendSibling(h, node, after) ==
    LET \* node.parentNode = parent; parent.childNodes.splice(index + 1, 0, node)
        insert(g, parent) ==
            IF parent # Null
            THEN [g EXCEPT !.parentNode[node] = parent,
                           !.childNodes[parent] = Splice(@, IndexOf(@, after) + 1, node)]
            ELSE g
        \* node.nextSibling = after.nextSibling; after.nextSibling.prevSibling = node
        linkNext(g, next) ==
            IF next # Null
            THEN [g EXCEPT !.nextSibling[node] = next,
                           !.prevSibling[next] = node]
            ELSE g
        \* after.nextSibling = node; node.prevSibling = after
        linkPrev(g) ==
            [g EXCEPT !.nextSibling[after] = node,
                      !.prevSibling[node] = after]
        afterInsert(g) == linkPrev(linkNext(g, g.nextSibling[after]))
        afterDetach(g) == afterInsert(insert(g, g.parentNode[after]))
    IN  IF isDocumentNode(h, after) THEN [h |-> h, threw |-> TRUE]
        ELSE [h |-> afterDetach(detatchNode(h, node)), threw |-> FALSE]

\* Mutant: the index of the reference node is taken before the node is
\* detached.
prependSibling_IndexFirst(h, node, before) ==
    LET \* node.parentNode = parent; parent.childNodes.splice(index, 0, node)
        insert(g, parent) ==
            IF parent # Null
            THEN [g EXCEPT !.parentNode[node] = parent,
                           !.childNodes[parent] =
                               Splice(@, SpliceStart(@, IndexOf(h.childNodes[parent], before)),
                                      node)]
            ELSE g
        \* node.prevSibling = before.prevSibling; before.prevSibling.nextSibling = node
        linkPrev(g, prev) ==
            IF prev # Null
            THEN [g EXCEPT !.prevSibling[node] = prev,
                           !.nextSibling[prev] = node]
            ELSE g
        \* before.prevSibling = node; node.nextSibling = before
        linkNext(g) ==
            [g EXCEPT !.prevSibling[before] = node,
                      !.nextSibling[node] = before]
        afterInsert(g) == linkNext(linkPrev(g, g.prevSibling[before]))
        afterDetach(g) == afterInsert(insert(g, g.parentNode[before]))
    IN  IF isDocumentNode(h, before) THEN [h |-> h, threw |-> TRUE]
        ELSE [h |-> afterDetach(detatchNode(h, node)), threw |-> FALSE]

prependSibling(h, node, before) ==
    LET \* node.parentNode = parent; parent.childNodes.splice(index, 0, node)
        insert(g, parent) ==
            IF parent # Null
            THEN [g EXCEPT !.parentNode[node] = parent,
                           !.childNodes[parent] =
                               Splice(@, SpliceStart(@, IndexOf(@, before)), node)]
            ELSE g
        \* node.prevSibling = before.prevSibling; before.prevSibling.nextSibling = node
        linkPrev(g, prev) ==
            IF prev # Null
            THEN [g EXCEPT !.prevSibling[node] = prev,
                           !.nextSibling[prev] = node]
            ELSE g
        \* before.prevSibling = node; node.nextSibling = before
        linkNext(g) ==
            [g EXCEPT !.prevSibling[before] = node,
                      !.nextSibling[node] = before]
        afterInsert(g) == linkNext(linkPrev(g, g.prevSibling[before]))
        afterDetach(g) == afterInsert(insert(g, g.parentNode[before]))
    IN  IF isDocumentNode(h, before) THEN [h |-> h, threw |-> TRUE]
        ELSE [h |-> afterDetach(detatchNode(h, node)), threw |-> FALSE]

(***************************************************************************)
(* replaceNode(remove, replacements).  Node.appendSibling(n) is            *)
(* appendSibling(n, this); a throw leaves the loop with the insertions     *)
(* made so far in place and remove still attached.                         *)
(***************************************************************************)
RECURSIVE replaceLoop(_, _, _)
replaceLoop(h, prevNode, replacements) ==
    LET next(r) ==
            IF r.threw THEN r
            ELSE replaceLoop(r.h, Head(replacements), Tail(replacements))
    IN  IF replacements = <<>> THEN [h |-> h, threw |-> FALSE]
        ELSE next(appendSibling(h, Head(replacements), prevNode))

\* Mutant: the replaced node is not detached.
replaceNode_KeepsRemoved(h, remove, replacements) ==
    replaceLoop(h, remove, replacements)

replaceNode(h, remove, replacements) ==
    LET finish(r) ==
            IF r.threw THEN r
            ELSE [h |-> detatchNode(r.h, remove), threw |-> FALSE]
    IN  finish(replaceLoop(h, remove, replacements))

(***************************************************************************)
(* swapNode(remove, replacement).  Node.appendChildren is                  *)
(* appendChildNodes(this, ...) and Node.replaceSelf is replaceNode(this,   *)
(* [...]).                                                                 *)
(***************************************************************************)
\* Mutant: the children of remove stay with it.
swapNode_KeepsChildren(h, remove, replacement) ==
    replaceNode(h, remove, <<replacement>>)

swapNode(h, remove, replacement) ==
    replaceNode(appendChildNodes(h, replacement, h.childNodes[remove]),
                remove, <<replacement>>)

(***************************************************************************)
(* Construction of a node.  The new node gets the least unused identity   *)
(* and starts with no parent, children or siblings; attrs is the identity *)
(* of the Map handed to a tag's constructor.                               *)
(***************************************************************************)
FreeIn(h) == {n \in DOMAIN h.nodeType : h.nodeType[n] = "Free"}

NewNode(h) == CHOOSE n \in FreeIn(h) : \A m \in FreeIn(h) : n <= m

Construct(h, n, type, data, attrs) ==
    [h EXCEPT !.nodeType[n] = type,
              !.nodeData[n] = data,
              !.attributes[n] = attrs]

(***************************************************************************)
(* createDomFromChildren(parent).                                          *)
(***************************************************************************)
\* Mutant: the first child stays with parent.
createDomFromChildren_LeavesFirst(h, parent) ==
    LET dom == NewNode(h)
    IN  appendChildNodes(Construct(h, dom, "Document", Null, Null), dom,
                         IF h.childNodes[parent] = <<>> THEN <<>>
                         ELSE Tail(h.childNodes[parent]))

createDomFromChildren(h, parent) ==
    LET dom == NewNode(h)
    IN  appendChildNodes(Construct(h, dom, "Document", Null, Null),
                         dom, h.childNodes[parent])

(***************************************************************************)
(* Cloning.  A clone in progress is c = [h, pairs]: the heap and the       *)
(* (oldNode, newNode) pairs handed to the callback so far.  Each clone*    *)
(* function returns the clone state and the new node.                      *)
(***************************************************************************)
RECURSIVE clone(_, _, _)

\* childNodes.map(node => node.clone(true, callback))
RECURSIVE cloneEach(_, _, _)
cloneEach(c, nodes, done) ==
    IF nodes = <<>> THEN [c |-> c, nodes |-> done]
    ELSE LET r == clone(c, Head(nodes), TRUE)
         IN  cloneEach(r.c, Tail(nodes), Append(done, r.node))

\* Mutant: the children of the original are appended, not their clones.
cloneChildNodes_AppendsOriginals(c, parent, nodes) ==
    IF Len(nodes) > 0
    THEN [c EXCEPT !.h = appendChildNodes(c.h, parent, nodes)]
    ELSE c

cloneChildNodes(c, parent, nodes) ==
    IF Len(nodes) > 0
    THEN LET r == cloneEach(c, nodes, <<>>)
         IN  [r.c EXCEPT !.h = appendChildNodes(r.c.h, parent, r.nodes)]
    ELSE c

processClonedNode(c, oldNode, newNode) ==
    [c EXCEPT !.pairs = Append(@, <<oldNode, newNode>>)]

\* Mutant: the callback gets a parent after its children.
processClonedParentNode_ChildrenFirst(c, oldNode, newNode, deep) ==
    processClonedNode(
        IF deep THEN cloneChildNodes(c, newNode, c.h.childNodes[oldNode]) ELSE c,
        oldNode, newNode)

processClonedParentNode(c, oldNode, newNode, deep) ==
    LET c1 == processClonedNode(c, oldNode, newNode)
    IN  IF deep THEN cloneChildNodes(c1, newNode, c1.h.childNodes[oldNode]) ELSE c1

\* new Map(node.getAttributes().entries()): the new Map is named newMap.
cloneAttributes(h, node, newMap) ==
    [h |-> [h EXCEPT !.attrMap[newMap] = h.attrMap[h.attributes[node]]],
     map |-> newMap]

cloneTagNode(c, node, deep) ==
    LET newNode == NewNode(c.h)
        newAttrs == cloneAttributes(c.h, node, newNode)
        h1 == Construct(newAttrs.h, newNode, "Tag", c.h.nodeData[node], newAttrs.map)
    IN  [c |-> processClonedParentNode([c EXCEPT !.h = h1], node, newNode, deep),
         node |-> newNode]

cloneTextNode(c, node) ==
    LET newNode == NewNode(c.h)
        h1 == Construct(c.h, newNode, "Text", c.h.nodeData[node], Null)
    IN  [c |-> processClonedNode([c EXCEPT !.h = h1], node, newNode),
         node |-> newNode]

cloneDocumentNode(c, node, deep) ==
    LET newNode == NewNode(c.h)
        h1 == Construct(c.h, newNode, "Document", Null, Null)
    IN  [c |-> processClonedParentNode([c EXCEPT !.h = h1], node, newNode, deep),
         node |-> newNode]

\* node.src, node.as, node.fragment and node.component are handed to the new
\* node as they are.
cloneMImportNode(c, node, deep) ==
    LET newNode == NewNode(c.h)
        newAttrs == cloneAttributes(c.h, node, newNode)
        h1 == Construct(newAttrs.h, newNode, "MImport", c.h.nodeData[node], newAttrs.map)
    IN  [c |-> processClonedParentNode([c EXCEPT !.h = h1], node, newNode, deep),
         node |-> newNode]

\* Node.clone(deep, callback): each node class hands itself to its clone function.
clone(c, node, deep) ==
    CASE c.h.nodeType[node] = "Tag" -> cloneTagNode(c, node, deep)
      [] c.h.nodeType[node] = "Text" -> cloneTextNode(c, node)
      [] c.h.nodeType[node] = "Document" -> cloneDocumentNode(c, node, deep)
      [] c.h.nodeType[node] = "MImport" -> cloneMImportNode(c, node, deep)

(***************************************************************************)
(* Trees.                                                                  *)
(***************************************************************************)
\* The nodes reachable from the nodes of S through childNodes, S included.
RECURSIVE ChildClosure(_, _, _)
ChildClosure(h, S, k) ==
    IF k = 0 THEN S
    ELSE ChildClosure(h, S \cup UNION {{h.childNodes[m][i] : i \in 1..Len(h.childNodes[m])} : m \in S},
                      k - 1)

Descendants(h, node) ==
    ChildClosure(h, {h.childNodes[node][i] : i \in 1..Len(h.childNodes[node])},
                 Cardinality(DOMAIN h.nodeType))

Subtree(h, node) == {node} \cup Descendants(h, node)

\* The tree below node is finite: walking it (walkDom, clone) ends.
IsTree(h, node) == \A m \in Subtree(h, node) : m \notin Descendants(h, m)

\* The kind, content and shape of the tree below node, without identities.
RECURSIVE ShapeTo(_, _, _)
ShapeTo(h, node, depth) ==
    [type |-> h.nodeType[node],
     data |-> h.nodeData[node],
     attrs |-> IF h.attributes[node] = Null THEN {} ELSE h.attrMap[h.attributes[node]],
     children |-> IF depth = 0 THEN <<>>
                  ELSE [i \in 1..Len(h.childNodes[node]) |->
                           ShapeTo(h, h.childNodes[node][i], depth - 1)]]

Shape(h, node) == ShapeTo(h, node, Cardinality(DOMAIN h.nodeType))

LiveIn(h) == {n \in DOMAIN h.nodeType : h.nodeType[n] # "Free"}

(***************************************************************************)
(* PipelineCache.  Each Map is a function over the keys in use; an absent  *)
(* key holds NoEntry.  Fragment and Component objects are records whose id *)
(* field is the object's identity.                                         *)
(***************************************************************************)
FragmentPaths == {"a", "b"}

ComponentPaths == {"b", "c"}

Keys == FragmentPaths \cup ComponentPaths

\* The paths of the external scripts.
ScriptPaths == {"s", "t"}

\* A text is a sequence of characters: " " is white space, "{" opens an
\* expression and "x" is any other character.
Chars == {" ", "{", "x"}

Texts == UNION {[1..n -> Chars] : n \in 0..MaxText}

\* The contents linkResource is given, and their digests.  The digest has a
\* fixed width, so contents exist that share one: "q" and "r" do.
Contents == {"p", "q", "r"}

fastHashContent(content) == IF content = "r" THEN <<"md5", "q">> ELSE <<"md5", content>>

Hashes == {fastHashContent(content) : content \in Contents}

NoEntry == [id |-> 0]

\* A string kept as the value of a Map entry.
Held(value) == [id |-> 1, value |-> value]

\* The maps of the cache the pipeline uses that pipelineCache.ts does not
\* have: compiled expressions and scripts by text, external script text by
\* path, created resource paths by content hash.
EmptyMissing ==
    [expressionCache |-> [k \in Texts |-> NoEntry],
     scriptCache |-> [k \in Texts |-> NoEntry],
     externalScriptCache |-> [k \in ScriptPaths |-> NoEntry],
     createdResourceCache |-> [k \in Hashes |-> NoEntry]]

EmptyCache ==
    [pageCache |-> [k \in Keys |-> NoEntry],
     fragmentCache |-> [k \in Keys |-> NoEntry],
     componentCache |-> [k \in Keys |-> NoEntry],
     scriptTextCache |-> [k \in Keys |-> NoEntry],
     missing |-> EmptyMissing]

hasPage(c, resId) == c.pageCache[resId].id # 0

getPage(c, resId) ==
    [threw |-> c.pageCache[resId].id = 0, page |-> c.pageCache[resId]]

storePage(c, page) == [c EXCEPT !.pageCache[page.resId] = page]

\* Mutant: no fragment is ever found.
hasFragment_Never(c, resId) == FALSE

hasFragment(c, resId) == c.fragmentCache[resId].id # 0

\* Mutant: a missing fragment does not raise.
getFragment_Unchecked(c, resId) ==
    [threw |-> FALSE, fragment |-> c.fragmentCache[resId]]

getFragment(c, resId) ==
    [threw |-> c.fragmentCache[resId].id = 0, fragment |-> c.fragmentCache[resId]]

\* Mutant: a key that has an entry keeps it.
storeFragment_KeepsFirst(c, fragment) ==
    IF c.fragmentCache[fragment.resId].id # 0 THEN c
    ELSE [c EXCEPT !.fragmentCache[fragment.resId] = fragment]

storeFragment(c, fragment) == [c EXCEPT !.fragmentCache[fragment.resId] = fragment]

hasComponent(c, resId) == c.componentCache[resId].id # 0

getComponent(c, resId) ==
    [threw |-> c.componentCache[resId].id = 0, component |-> c.componentCache[resId]]

storeComponent(c, component) == [c EXCEPT !.componentCache[component.resId] = component]

hasScriptText(c, signature) == c.scriptTextCache[signature].id # 0

getScriptText(c, signature) ==
    [threw |-> c.scriptTextCache[signature].id = 0,
     templateFunc |-> c.scriptTextCache[signature]]

storeScriptText(c, signature, templateFunc) ==
    [c EXCEPT !.scriptTextCache[signature] = templateFunc]

\* The methods the pipeline calls on its cache for the maps pipelineCache.ts
\* does not have; they follow the has / get / store pattern of the others.
hasExpression(c, expression) == c.missing.expressionCache[expression].id # 0

getExpression(c, expression) ==
    [threw |-> c.missing.expressionCache[expression].id = 0,
     expressionFunc |-> c.missing.expressionCache[expression]]

storeExpression(c, expression, expressionFunc) ==
    [c EXCEPT !.missing.expressionCache[expression] = expressionFunc]

hasScript(c, script) == c.missing.scriptCache[script].id # 0

getScript(c, script) ==
    [threw |-> c.missing.scriptCache[script].id = 0,
     scriptFunc |-> c.missing.scriptCache[script]]

storeScript(c, script, scriptFunc) ==
    [c EXCEPT !.missing.scriptCache[script] = scriptFunc]

hasExternalScript(c, resPath) == c.missing.externalScriptCache[resPath].id # 0

getExternalScript(c, resPath) ==
    [threw |-> c.missing.externalScriptCache[resPath].id = 0,
     script |-> IF c.missing.externalScriptCache[resPath].id = 0 THEN <<>>
                ELSE c.missing.externalScriptCache[resPath].value]

storeExternalScript(c, resPath, script) ==
    [c EXCEPT !.missing.externalScriptCache[resPath] = Held(script)]

hasCreatedResource(c, hash) == c.missing.createdResourceCache[hash].id # 0

getCreatedResource(c, hash) ==
    [threw |-> c.missing.createdResourceCache[hash].id = 0,
     resPath |-> IF c.missing.createdResourceCache[hash].id = 0 THEN ""
                 ELSE c.missing.createdResourceCache[hash].value]

storeCreatedResource(c, hash, resPath) ==
    [c EXCEPT !.missing.createdResourceCache[hash] = Held(resPath)]

\* clear() of the cache the pipeline uses empties the maps above as well.
clearMissing(c) == [c EXCEPT !.missing = EmptyMissing]

\* Mutant: clear() leaves the components.
cacheClear_KeepsComponents(c) ==
    clearMissing([c EXCEPT !.pageCache = [k \in Keys |-> NoEntry],
                           !.fragmentCache = [k \in Keys |-> NoEntry],
                           !.scriptTextCache = [k \in Keys |-> NoEntry]])

\* PipelineCache.clear()
cacheClear(c) ==
    clearMissing([c EXCEPT !.pageCache = [k \in Keys |-> NoEntry],
                           !.fragmentCache = [k \in Keys |-> NoEntry],
                           !.componentCache = [k \in Keys |-> NoEntry],
                           !.scriptTextCache = [k \in Keys |-> NoEntry]])

(***************************************************************************)
(* The resource backend and the parser.  getResource(HTML, resPath)        *)
(* followed by parseFragment / parseComponent builds the tree Template     *)
(* describes out of new nodes; the parsed object carries resPath as its    *)
(* resId and path.                                                         *)
(***************************************************************************)
Template(resPath) ==
    CASE resPath = "a" ->
             [type |-> "Document", data |-> Null, attrs |-> {},
              children |-> <<[type |-> "Tag", data |-> "div", attrs |-> {<<"class", "a">>},
                              children |-> <<[type |-> "Text", data |-> "hello",
                                              attrs |-> {}, children |-> <<>>]>>]>>]
      [] resPath = "b" ->
             [type |-> "Document", data |-> Null, attrs |-> {},
              children |-> <<[type |-> "MImport",
                              data |-> [src |-> "part.html", as |-> "my-part",
                                        fragment |-> TRUE, component |-> FALSE],
                              attrs |-> {<<"src", "part.html">>},
                              children |-> <<>>]>>]
      [] resPath = "c" ->
             [type |-> "Document", data |-> Null, attrs |-> {},
              children |-> <<[type |-> "Text", data |-> "hello",
                              attrs |-> {}, children |-> <<>>]>>]

RECURSIVE ShapeSize(_)
ShapeSize(shape) ==
    LET RECURSIVE Sum(_)
        Sum(k) == IF k = 0 THEN 0 ELSE ShapeSize(shape.children[k]) + Sum(k - 1)
    IN  1 + Sum(Len(shape.children))

RECURSIVE build(_, _)
RECURSIVE buildChildren(_, _, _)
build(h, shape) ==
    LET node == NewNode(h)
        attrs == IF shape.type \in {"Tag", "MImport"} THEN node ELSE Null
        h1 == Construct([h EXCEPT !.attrMap[node] = shape.attrs],
                        node, shape.type, shape.data, attrs)
    IN  [h |-> buildChildren(h1, node, shape.children), node |-> node]

buildChildren(h, parent, shapes) ==
    IF shapes = <<>> THEN h
    ELSE LET r == build(h, Head(shapes))
         IN  buildChildren(appendChild(r.h, parent, r.node), parent, Tail(shapes))

(***************************************************************************)
(* StandardPipeline.  A pipeline state is p = [h, cache, nextId, lastGet,   *)
(* calls, reLinkCreatedResource]: the heap, the cache, the identity of the *)
(* next object created, the last get* call the pipeline made on its cache, *)
(* the trace of its calls and whether its pipelineInterface defines        *)
(* reLinkCreatedResource.                                                  *)
(***************************************************************************)
NoGet == [op |-> "none", key |-> "", result |-> NoEntry]

\* p.calls is the trace of the pipeline: the calls it has made on its
\* collaborators (the resource backend pipelineInterface, the resourceParser,
\* the evalEngine and the units it compiled) and, after the calls each one
\* made, the operations it has served.
Invoked(on, op, args, result) ==
    [on |-> on, op |-> op, args |-> args, result |-> result, raised |-> FALSE]

\* A call that raised.
Raised(on, op, args) ==
    [on |-> on, op |-> op, args |-> args, result |-> Null, raised |-> TRUE]

Called(p, on, op, args, result) ==
    [p EXCEPT !.calls = Append(@, Invoked(on, op, args, result))]

\* The text of the script resources: both hold the script x, one of them
\* after white space.
ScriptResource(resPath) == IF resPath = "s" THEN <<" ", "x">> ELSE <<"x">>

\* pipelineInterface.getResource(type, resPath)
getResource(p, type, resPath) ==
    [p |-> Called(p, "pipelineInterface", "getResource", <<type, resPath>>, Null),
     text |-> IF type = "JAVASCRIPT" THEN ScriptResource(resPath) ELSE <<>>]

parseFragment(p, resPath) ==
    LET r == build(p.h, Template(resPath))
    IN  [p |-> Called([p EXCEPT !.h = r.h, !.nextId = @ + 1],
                       "resourceParser", "parseFragment", <<resPath>>, Null),
         fragment |-> [id |-> p.nextId, resId |-> resPath, path |-> resPath,
                       dom |-> r.node]]

\* The style section of the components: c has one, b has none.
ComponentStyle(resPath) ==
    IF resPath = "c"
    THEN [defined |-> TRUE, styleContent |-> "css", bindType |-> "head"]
    ELSE [defined |-> FALSE, styleContent |-> "", bindType |-> ""]

parseComponent(p, resPath) ==
    LET r == build(p.h, Template(resPath))
    IN  [p |-> Called([p EXCEPT !.h = r.h, !.nextId = @ + 1],
                       "resourceParser", "parseComponent", <<resPath>>, Null),
         component |-> [id |-> p.nextId, resId |-> resPath, resPath |-> resPath,
                        template |-> [dom |-> r.node],
                        style |-> ComponentStyle(resPath)]]

\* Component.clone(): a new Component whose template is a deep clone.
cloneComponent(p, component) ==
    LET r == clone([h |-> p.h, pairs |-> <<>>], component.template.dom, TRUE)
    IN  [p |-> [p EXCEPT !.h = r.c.h, !.nextId = @ + 1],
         component |-> [component EXCEPT !.id = p.nextId, !.template.dom = r.node]]

\* Mutant: the dom of the cached fragment is handed out as it is.
getOrParseFragment_NoClone(p, resPath) ==
    LET hit == hasFragment(p.cache, resPath)
        parsed == parseFragment(getResource(p, "HTML", resPath).p, resPath)
        fragment == IF hit THEN getFragment(p.cache, resPath).fragment
                    ELSE parsed.fragment
        p1 == IF hit
              THEN [p EXCEPT !.lastGet = [op |-> "getFragment", key |-> resPath,
                                          result |-> fragment]]
              ELSE [parsed.p EXCEPT !.cache = storeFragment(@, parsed.fragment)]
    IN  [p |-> [p1 EXCEPT !.nextId = @ + 1],
         fragment |-> [id |-> p1.nextId, path |-> fragment.path, dom |-> fragment.dom]]

\* Mutant: the clone is not deep.
getOrParseFragment_ShallowClone(p, resPath) ==
    LET hit == hasFragment(p.cache, resPath)
        parsed == parseFragment(getResource(p, "HTML", resPath).p, resPath)
        fragment == IF hit THEN getFragment(p.cache, resPath).fragment
                    ELSE parsed.fragment
        p1 == IF hit
              THEN [p EXCEPT !.lastGet = [op |-> "getFragment", key |-> resPath,
                                          result |-> fragment]]
              ELSE [parsed.p EXCEPT !.cache = storeFragment(@, parsed.fragment)]
        r == clone([h |-> p1.h, pairs |-> <<>>], fragment.dom, FALSE)
    IN  [p |-> [p1 EXCEPT !.h = r.c.h, !.nextId = @ + 1],
         fragment |-> [id |-> p1.nextId, path |-> fragment.path, dom |-> r.node]]

getOrParseFragment(p, resPath) ==
    LET hit == hasFragment(p.cache, resPath)
        parsed == parseFragment(getResource(p, "HTML", resPath).p, resPath)
        fragment == IF hit THEN getFragment(p.cache, resPath).fragment
                    ELSE parsed.fragment
        p1 == IF hit
              THEN [p EXCEPT !.lastGet = [op |-> "getFragment", key |-> resPath,
                                          result |-> fragment]]
              ELSE [parsed.p EXCEPT !.cache = storeFragment(@, parsed.fragment)]
        r == clone([h |-> p1.h, pairs |-> <<>>], fragment.dom, TRUE)
    IN  [p |-> [p1 EXCEPT !.h = r.c.h, !.nextId = @ + 1],
         fragment |-> [id |-> p1.nextId, path |-> fragment.path, dom |-> r.node]]

getOrParseComponent(p, resPath) ==
    LET hit == hasComponent(p.cache, resPath)
        parsed == parseComponent(getResource(p, "HTML", resPath).p, resPath)
        component == IF hit THEN getComponent(p.cache, resPath).component
                     ELSE parsed.component
        p1 == IF hit
              THEN [p EXCEPT !.lastGet = [op |-> "getComponent", key |-> resPath,
                                          result |-> component]]
              ELSE [parsed.p EXCEPT !.cache = storeComponent(@, parsed.component)]
    IN  cloneComponent(p1, component)

(***************************************************************************)
(* Expressions and scripts.  parseExpression and parseScript make a new    *)
(* unit out of a text; invoke runs a unit.                                 *)
(***************************************************************************)
RECURSIVE trimStart(_)
trimStart(text) ==
    IF Len(text) > 0 /\ Head(text) = " " THEN trimStart(Tail(text)) ELSE text

RECURSIVE trimEnd(_)
trimEnd(text) ==
    IF Len(text) > 0 /\ text[Len(text)] = " "
    THEN trimEnd(SubSeq(text, 1, Len(text) - 1))
    ELSE text

\* String.prototype.trim
trim(text) == trimEnd(trimStart(text))

\* A value is an expression string when, white space aside, it opens with
\* the expression delimiter.
isExpressionString(value) == Len(trim(value)) > 0 /\ Head(trim(value)) = "{"

parseExpression(p, expression) ==
    [p |-> Called([p EXCEPT !.nextId = @ + 1],
                  "evalEngine", "parseExpression", <<expression>>, p.nextId),
     func |-> [id |-> p.nextId, text |-> expression]]

parseScript(p, script) ==
    [p |-> Called([p EXCEPT !.nextId = @ + 1],
                  "evalEngine", "parseScript", <<script>>, p.nextId),
     func |-> [id |-> p.nextId, text |-> script]]

\* EvalContent.invoke(evalContext)
invoke(p, func) == Called(p, "evalContent", "invoke", <<func.id, func.text>>, Null)

getOrParseExpression(p, expression) ==
    IF hasExpression(p.cache, expression)
    THEN [p |-> p, func |-> getExpression(p.cache, expression).expressionFunc]
    ELSE [p |-> [parseExpression(p, expression).p EXCEPT
                    !.cache = storeExpression(@, expression,
                                              parseExpression(p, expression).func)],
          func |-> parseExpression(p, expression).func]

getOrParseScript(p, script) ==
    IF hasScript(p.cache, script)
    THEN [p |-> p, func |-> getScript(p.cache, script).scriptFunc]
    ELSE [p |-> [parseScript(p, script).p EXCEPT
                    !.cache = storeScript(@, script, parseScript(p, script).func)],
          func |-> parseScript(p, script).func]

getOrParseExternalScript(p, resPath) ==
    IF hasExternalScript(p.cache, resPath)
    THEN [p |-> p, script |-> getExternalScript(p.cache, resPath).script]
    ELSE [p |-> [getResource(p, "JAVASCRIPT", resPath).p EXCEPT
                    !.cache = storeExternalScript(
                                  @, resPath,
                                  trim(getResource(p, "JAVASCRIPT", resPath).text))],
          script |-> trim(getResource(p, "JAVASCRIPT", resPath).text)]

\* Mutant: the value is looked up as it is given.
compileExpression_NoTrim(p, value) ==
    IF isExpressionString(value)
    THEN invoke(getOrParseExpression(p, value).p, getOrParseExpression(p, value).func)
    ELSE p

compileExpression(p, value) ==
    IF isExpressionString(value)
    THEN invoke(getOrParseExpression(p, trim(value)).p,
                getOrParseExpression(p, trim(value)).func)
    ELSE p

compileScript(p, script) ==
    invoke(getOrParseScript(p, trim(script)).p, getOrParseScript(p, trim(script)).func)

compileExternalScript(p, resPath) ==
    compileScript(getOrParseExternalScript(p, resPath).p,
                  getOrParseExternalScript(p, resPath).script)

(***************************************************************************)
(* Created resources.  createResource names the resource it creates with a *)
(* path no resource has yet; reLinkCreatedResource, where the backend      *)
(* defines it, answers the original path or a path of its own.             *)
(***************************************************************************)
Created(calls) == Cardinality({i \in 1..Len(calls) : calls[i].op = "createResource"})

createResource(p, type, contents, sourceResPath) ==
    [p |-> Called(p, "pipelineInterface", "createResource",
                  <<type, contents, sourceResPath>>, <<"created", Created(p.calls) + 1>>),
     resPath |-> <<"created", Created(p.calls) + 1>>]

Answers == {"original", "own"}

reLinkCreatedResource(p, type, contents, sourceResPath, originalResPath, answer) ==
    [p |-> Called(p, "pipelineInterface", "reLinkCreatedResource",
                  <<type, contents, sourceResPath, originalResPath>>,
                  IF answer = "original" THEN originalResPath
                  ELSE <<"relinked", type, sourceResPath>>),
     resPath |-> IF answer = "original" THEN originalResPath
                 ELSE <<"relinked", type, sourceResPath>>]

\* Mutant: the path of a created resource is not kept.
linkResource_NoStore(p, type, contents, sourceResPath, answer) ==
    IF hasCreatedResource(p.cache, fastHashContent(contents))
    THEN IF p.reLinkCreatedResource
         THEN reLinkCreatedResource(
                  p, type, contents, sourceResPath,
                  getCreatedResource(p.cache, fastHashContent(contents)).resPath, answer)
         ELSE [p |-> p,
               resPath |-> getCreatedResource(p.cache, fastHashContent(contents)).resPath]
    ELSE createResource(p, type, contents, sourceResPath)

\* Mutant: a backend that defines reLinkCreatedResource is not asked.
linkResource_NoRelink(p, type, contents, sourceResPath, answer) ==
    IF hasCreatedResource(p.cache, fastHashContent(contents))
    THEN [p |-> p,
          resPath |-> getCreatedResource(p.cache, fastHashContent(contents)).resPath]
    ELSE [p |-> [createResource(p, type, contents, sourceResPath).p EXCEPT
                    !.cache = storeCreatedResource(
                                  @, fastHashContent(contents),
                                  createResource(p, type, contents, sourceResPath).resPath)],
          resPath |-> createResource(p, type, contents, sourceResPath).resPath]

\* answer is what the backend answers if it is asked to relink.
\* Mutant: the path the backend answers a relink with replaces the path kept
\* for the contents.
linkResource_StoresRelink(p, type, contents, sourceResPath, answer) ==
    IF hasCreatedResource(p.cache, fastHashContent(contents))
    THEN IF p.reLinkCreatedResource
         THEN [p |-> [reLinkCreatedResource(
                          p, type, contents, sourceResPath,
                          getCreatedResource(p.cache, fastHashContent(contents)).resPath,
                          answer).p EXCEPT
                         !.cache = storeCreatedResource(
                                       @, fastHashContent(contents),
                                       reLinkCreatedResource(
                                           p, type, contents, sourceResPath,
                                           getCreatedResource(
                                               p.cache, fastHashContent(contents)).resPath,
                                           answer).resPath)],
               resPath |-> reLinkCreatedResource(
                               p, type, contents, sourceResPath,
                               getCreatedResource(p.cache, fastHashContent(contents)).resPath,
                               answer).resPath]
         ELSE [p |-> p,
               resPath |-> getCreatedResource(p.cache, fastHashContent(contents)).resPath]
    ELSE [p |-> [createResource(p, type, contents, sourceResPath).p EXCEPT
                    !.cache = storeCreatedResource(
                                  @, fastHashContent(contents),
                                  createResource(p, type, contents, sourceResPath).resPath)],
          resPath |-> createResource(p, type, contents, sourceResPath).resPath]

linkResource(p, type, contents, sourceResPath, answer) ==
    IF hasCreatedResource(p.cache, fastHashContent(contents))
    THEN IF p.reLinkCreatedResource
         THEN reLinkCreatedResource(
                  p, type, contents, sourceResPath,
                  getCreatedResource(p.cache, fastHashContent(contents)).resPath, answer)
         ELSE [p |-> p,
               resPath |-> getCreatedResource(p.cache, fastHashContent(contents)).resPath]
    ELSE [p |-> [createResource(p, type, contents, sourceResPath).p EXCEPT
                    !.cache = storeCreatedResource(
                                  @, fastHashContent(contents),
                                  createResource(p, type, contents, sourceResPath).resPath)],
          resPath |-> createResource(p, type, contents, sourceResPath).resPath]

\* Mutant: reset() leaves the cache.
reset_KeepsCache(p) == p

reset(p) == [p EXCEPT !.cache = cacheClear(@)]

(***************************************************************************)
(* compilePage and compileComponent, statement by statement.  After it got *)
(* its fragment or component, each operation is a sequence of calls on     *)
(* collaborators; a call that raises ends the operation.  A frame holds    *)
(* the operation in progress: its arguments, its calls and the position of *)
(* the next one.                                                           *)
(***************************************************************************)
NoFrame == [op |-> "none"]

\* Mutant: the page is written before it is formatted.
compilePageSteps_WriteFirst ==
    <<"compileHtml", "buildPage", "writeResource", "formatDom", "toHtml", "formatHtml">>

\* compilePage: compileFragment runs compileHtml on the fragment it got, then
\* buildPage, formatDom, toHtml, formatHtml and writeResource.
compilePageSteps ==
    <<"compileHtml", "buildPage", "formatDom", "toHtml", "formatHtml", "writeResource">>

\* Mutant: the style is compiled and bound before the template is compiled.
compileComponentSteps_StyleFirst(component) ==
    IF component.style.defined
    THEN <<"invoke", "compileCss", "bindStyle", "compileHtml">>
    ELSE <<"invoke", "compileHtml">>

\* compileComponent: the instance script is invoked, compileHtml runs on the
\* template and, if the component has a style, compileCss and bindStyle.
compileComponentSteps(component) ==
    IF component.style.defined
    THEN <<"invoke", "compileHtml", "compileCss", "bindStyle">>
    ELSE <<"invoke", "compileHtml">>

\* The object each call is made on.
StepOn(step) ==
    CASE step = "compileHtml" -> "htmlCompiler"
      [] step = "buildPage" -> "pageBuilder"
      [] step \in {"formatDom", "formatHtml"} -> "htmlFormatter"
      [] step = "toHtml" -> "pageDom"
      [] step = "writeResource" -> "pipelineInterface"
      [] step = "invoke" -> "scriptFunction"
      [] step = "compileCss" -> "this"
      [] step = "bindStyle" -> "styleBinder"

\* Parameters and instance objects are sets of <<name, value>> pairs.  The
\* scope of a component has the parameters and, over them, what the
\* instance object defines.
createFragmentScope(parameters, componentInstance) ==
    {pair \in parameters : \A other \in componentInstance : other[1] # pair[1]}
        \cup componentInstance

\* compileCss(css)
compileCss(css) == css

\* The arguments of each call: compileHtml gets the fragment and the scope
\* of its context, which for a page is empty.
StepArgs(frame, step) ==
    CASE step = "compileHtml" ->
             <<frame.fragment.path,
               IF frame.op = "compileComponent"
               THEN createFragmentScope(frame.parameters, frame.instance)
               ELSE {}>>
      [] step = "writeResource" -> <<"HTML", frame.resPath>>
      [] step = "compileCss" -> <<frame.component.style.styleContent>>
      [] step = "bindStyle" ->
             <<frame.component.resPath, compileCss(frame.component.style.styleContent),
               frame.component.style.bindType>>
      [] OTHER -> <<>>

\* compileCss is the identity; every other call returns or raises.
Outcomes(step) == IF step = "compileCss" THEN {"returned"} ELSE {"returned", "raised"}

NoPipe ==
    [nextId |-> 1, stack |-> <<>>, handed |-> <<>>, lastGet |-> NoGet, mutations |-> 0,
     calls |-> <<>>, reLinkCreatedResource |-> FALSE, frame |-> NoFrame]

(***************************************************************************)
(* The nodes of the DOM specification.                                     *)
(***************************************************************************)
Free == FreeIn(Heap)

\* The node types of the nodes the client has constructed before the first
\* call: tags, a document and a text.
InitialType(n) ==
    IF n = 3 THEN "Document"
    ELSE IF n = 4 THEN "Text"
    ELSE "Tag"

\* Node lists of length 1..MaxList over the constructed nodes.
NodeLists == UNION {[1..k -> Live] : k \in 1..MaxList}

(***************************************************************************)
(* The observed call.  A behaviour makes any number of calls and then one  *)
(* observed call, which records its name, its arguments, whether it threw, *)
(* the node it returned and the links it started from; the postconditions  *)
(* are stated on the state after the observed call.                        *)
(***************************************************************************)
NoClone == [orig |-> Null]

EmptyHeap ==
    [parentNode |-> <<>>, childNodes |-> <<>>, prevSibling |-> <<>>, nextSibling |-> <<>>]

NoCall == [op |-> "none", args |-> <<>>, threw |-> FALSE, pre |-> EmptyHeap, result |-> Null]

Call(op, args, threw, result) ==
    [op |-> op, args |-> args, threw |-> threw, pre |-> Links(Heap), result |-> result]

Observe(call) == last' \in {NoCall, call}

Unobserved == last.op = "none"

SetHeap(h) ==
    /\ nodeType' = h.nodeType
    /\ nodeData' = h.nodeData
    /\ attributes' = h.attributes
    /\ attrMap' = h.attrMap
    /\ parentNode' = h.parentNode
    /\ childNodes' = h.childNodes
    /\ prevSibling' = h.prevSibling
    /\ nextSibling' = h.nextSibling

DomInit ==
    /\ \E free \in 0..MaxAlloc :
           nodeType = [n \in 1..MaxNodes |->
                          IF n <= MaxNodes - free THEN InitialType(n) ELSE "Free"]
    /\ nodeData = [n \in 1..MaxNodes |-> Null]
    /\ attributes = [n \in 1..MaxNodes |-> Null]
    /\ attrMap = [n \in 1..MaxNodes |-> {}]
    /\ parentNode = [n \in 1..MaxNodes |-> Null]
    /\ childNodes = [n \in 1..MaxNodes |-> <<>>]
    /\ prevSibling = [n \in 1..MaxNodes |-> Null]
    /\ nextSibling = [n \in 1..MaxNodes |-> Null]
    /\ last = NoCall
    /\ cloned = NoClone
    /\ cache = EmptyCache
    /\ pipe = NoPipe

DetatchNode ==
    /\ Unobserved
    /\ \E node \in Live :
        /\ SetHeap(detatchNode(Heap, node))
        /\ Observe(Call("detatchNode", <<node>>, FALSE, Null))
        /\ UNCHANGED <<cloned, cache, pipe>>

AppendChild ==
    /\ Unobserved
    /\ \E parent \in WithChildren, child \in Live :
        /\ SetHeap(appendChild(Heap, parent, child))
        /\ Observe(Call("appendChild", <<parent, child>>, FALSE, Null))
        /\ UNCHANGED <<cloned, cache, pipe>>

PrependChild ==
    /\ Unobserved
    /\ \E parent \in WithChildren, child \in Live :
        /\ SetHeap(prependChild(Heap, parent, child))
        /\ Observe(Call("prependChild", <<parent, child>>, FALSE, Null))
        /\ UNCHANGED <<cloned, cache, pipe>>

Clear ==
    /\ Unobserved
    /\ \E parent \in WithChildren :
        /\ SetHeap(clear(Heap, parent))
        /\ Observe(Call("clear", <<parent>>, FALSE, Null))
        /\ UNCHANGED <<cloned, cache, pipe>>

AppendChildNodes ==
    /\ Unobserved
    /\ \E parent \in WithChildren, nodes \in NodeLists :
        /\ SetHeap(appendChildNodes(Heap, parent, nodes))
        /\ Observe(Call("appendChildNodes", <<parent>> \o nodes, FALSE, Null))
        /\ UNCHANGED <<cloned, cache, pipe>>

AppendSibling ==
    /\ Unobserved
    /\ \E node \in Live, after \in Live :
        LET r == appendSibling(Heap, node, after)
        IN  /\ SetHeap(r.h)
            /\ Observe(Call("appendSibling", <<node, after>>, r.threw, Null))
            /\ UNCHANGED <<cloned, cache, pipe>>

PrependSibling ==
    /\ Unobserved
    /\ \E node \in Live, before \in Live :
        LET r == prependSibling(Heap, node, before)
        IN  /\ SetHeap(r.h)
            /\ Observe(Call("prependSibling", <<node, before>>, r.threw, Null))
            /\ UNCHANGED <<cloned, cache, pipe>>

ReplaceNode ==
    /\ Unobserved
    /\ \E remove \in Live, replacements \in NodeLists :
        LET r == replaceNode(Heap, remove, replacements)
        IN  /\ SetHeap(r.h)
            /\ Observe(Call("replaceNode", <<remove>> \o replacements, r.threw, Null))
            /\ UNCHANGED <<cloned, cache, pipe>>

SwapNode ==
    /\ Unobserved
    /\ \E remove \in WithChildren, replacement \in WithChildren :
        LET r == swapNode(Heap, remove, replacement)
        IN  /\ SetHeap(r.h)
            /\ Observe(Call("swapNode", <<remove, replacement>>, r.threw, Null))
            /\ UNCHANGED <<cloned, cache, pipe>>

CreateDomFromChildren ==
    /\ Unobserved
    /\ Free # {}
    /\ \E parent \in WithChildren :
        /\ SetHeap(createDomFromChildren(Heap, parent))
        /\ Observe(Call("createDomFromChildren", <<parent>>, FALSE, NewNode(Heap)))
        /\ UNCHANGED <<cloned, cache, pipe>>

DomNext ==
    \/ DetatchNode
    \/ AppendChild
    \/ PrependChild
    \/ Clear
    \/ AppendChildNodes
    \/ AppendSibling
    \/ PrependSibling
    \/ ReplaceNode
    \/ SwapNode
    \/ CreateDomFromChildren

SpecDom == DomInit /\ [][DomNext]_vars

(***************************************************************************)
(* The clone specification: a client builds a tree out of CloneNodes       *)
(* nodes, clones one of its nodes, and then works on one of the two trees. *)
(***************************************************************************)
ClonePool == 1..(2 * CloneNodes)

\* The import node's src, as, fragment and component.
ImportData == [src |-> "part.html", as |-> "my-part", fragment |-> TRUE, component |-> FALSE]

CloneData(type) ==
    CASE type = "Document" -> Null
      [] type = "Tag" -> "div"
      [] type = "MImport" -> ImportData
      [] type = "Text" -> "hello"

\* TagNode.setAttribute(name, value): attributes.set(name, value)
setAttribute(h, node, name, value) ==
    [h EXCEPT !.attrMap[h.attributes[node]] =
                  {e \in @ : e[1] # name} \cup {<<name, value>>}]

CloneInit ==
    /\ \E tag \in {"Tag", "MImport"} :
        LET type == [n \in ClonePool |->
                        IF n > CloneNodes THEN "Free"
                        ELSE IF n = 1 THEN "Document"
                        ELSE IF n = 3 THEN "Text"
                        ELSE IF n = 2 THEN tag ELSE "Tag"]
        IN  /\ nodeType = type
            /\ nodeData = [n \in ClonePool |->
                              IF type[n] = "Free" THEN Null ELSE CloneData(type[n])]
            /\ attributes = [n \in ClonePool |->
                                IF type[n] \in {"Tag", "MImport"} THEN n ELSE Null]
            /\ attrMap = [n \in ClonePool |->
                             IF type[n] \in {"Tag", "MImport"} THEN {<<"class", "a">>} ELSE {}]
    /\ parentNode = [n \in ClonePool |-> Null]
    /\ childNodes = [n \in ClonePool |-> <<>>]
    /\ prevSibling = [n \in ClonePool |-> Null]
    /\ nextSibling = [n \in ClonePool |-> Null]
    /\ last = NoCall
    /\ cloned = NoClone
    /\ cache = EmptyCache
    /\ pipe = NoPipe

\* The client builds the tree.
BuildAppendChild ==
    /\ cloned.orig = Null
    /\ \E parent \in WithChildren, child \in Live :
        SetHeap(appendChild(Heap, parent, child))
    /\ UNCHANGED <<last, cloned, cache, pipe>>

BuildPrependChild ==
    /\ cloned.orig = Null
    /\ \E parent \in WithChildren, child \in Live :
        SetHeap(prependChild(Heap, parent, child))
    /\ UNCHANGED <<last, cloned, cache, pipe>>

\* node.clone(deep, callback), of a node whose tree is finite.
CloneNode ==
    /\ cloned.orig = Null
    /\ \E node \in Live, deep \in BOOLEAN :
        /\ IsTree(Heap, node)
        /\ Cardinality(Subtree(Heap, node)) <= Cardinality(Free)
        /\ LET r == clone([h |-> Heap, pairs |-> <<>>], node, deep)
           IN  /\ SetHeap(r.c.h)
               /\ cloned' = [orig |-> node, copy |-> r.node, deep |-> deep,
                             pairs |-> r.c.pairs, pre |-> Heap, post |-> r.c.h,
                             copyNodes |-> Subtree(r.c.h, r.node),
                             touched |-> "none", mutations |-> 0]
    /\ UNCHANGED <<last, cache, pipe>>

\* The nodes of one of the two trees: those of the copy, or those that
\* existed before the clone.
Side(name) == IF name = "copy" THEN cloned.copyNodes ELSE LiveIn(cloned.pre)

Touch(name) == cloned' = [cloned EXCEPT !.touched = name, !.mutations = @ + 1]

CanTouch(name) ==
    /\ cloned.orig # Null
    /\ cloned.touched \in {"none", name}
    /\ cloned.mutations < MaxMutations

\* The client works on one tree, with calls whose arguments are its nodes.
MutateDetach ==
    \E name \in {"copy", "original"} :
        /\ CanTouch(name)
        /\ \E node \in Side(name) : SetHeap(detatchNode(Heap, node))
        /\ Touch(name)
        /\ UNCHANGED <<last, cache, pipe>>

MutateAppendChild ==
    \E name \in {"copy", "original"} :
        /\ CanTouch(name)
        /\ \E parent \in Side(name) \cap WithChildren, child \in Side(name) :
            SetHeap(appendChild(Heap, parent, child))
        /\ Touch(name)
        /\ UNCHANGED <<last, cache, pipe>>

MutateAppendSibling ==
    \E name \in {"copy", "original"} :
        /\ CanTouch(name)
        /\ \E node \in Side(name), after \in Side(name) :
            SetHeap(appendSibling(Heap, node, after).h)
        /\ Touch(name)
        /\ UNCHANGED <<last, cache, pipe>>

MutateSwapNode ==
    \E name \in {"copy", "original"} :
        /\ CanTouch(name)
        /\ \E remove \in Side(name) \cap WithChildren,
              replacement \in Side(name) \cap WithChildren :
            SetHeap(swapNode(Heap, remove, replacement).h)
        /\ Touch(name)
        /\ UNCHANGED <<last, cache, pipe>>

MutateSetAttribute ==
    \E name \in {"copy", "original"} :
        /\ CanTouch(name)
        /\ \E node \in Side(name), attr \in {"class", "id"} :
            /\ isTagNode(Heap, node)
            /\ SetHeap(setAttribute(Heap, node, attr, "b"))
        /\ Touch(name)
        /\ UNCHANGED <<last, cache, pipe>>

CloneNext ==
    \/ BuildAppendChild
    \/ BuildPrependChild
    \/ CloneNode
    \/ MutateDetach
    \/ MutateAppendChild
    \/ MutateAppendSibling
    \/ MutateSwapNode
    \/ MutateSetAttribute

SpecClone == CloneInit /\ [][CloneNext]_vars

(***************************************************************************)
(* The pipeline specification: one StandardPipeline serves compileFragment,*)
(* compileComponent and getRawFragment calls.  compileHtml, which the      *)
(* compile calls run on the fragment they got, changes the trees it can    *)
(* reach and calls back into the pipeline for nested fragments; the caller *)
(* of a finished compile does what it likes with the fragment it got.      *)
(* pipe.stack holds the compiles in progress and pipe.handed, in order,    *)
(* what getOrParseFragment / getOrParseComponent have returned.            *)
(***************************************************************************)
PipelineInit ==
    /\ nodeType = [n \in 1..PipelineNodes |-> "Free"]
    /\ nodeData = [n \in 1..PipelineNodes |-> Null]
    /\ attributes = [n \in 1..PipelineNodes |-> Null]
    /\ attrMap = [n \in 1..PipelineNodes |-> {}]
    /\ parentNode = [n \in 1..PipelineNodes |-> Null]
    /\ childNodes = [n \in 1..PipelineNodes |-> <<>>]
    /\ prevSibling = [n \in 1..PipelineNodes |-> Null]
    /\ nextSibling = [n \in 1..PipelineNodes |-> Null]
    /\ last = NoCall
    /\ cloned = NoClone
    /\ cache = EmptyCache
    /\ pipe = NoPipe

Pipeline ==
    [h |-> Heap, cache |-> cache, nextId |-> pipe.nextId, lastGet |-> pipe.lastGet,
     calls |-> pipe.calls, reLinkCreatedResource |-> pipe.reLinkCreatedResource]

\* The operations the pipeline has served.
Served == {i \in 1..Len(pipe.calls) : pipe.calls[i].on = "pipeline"}

CanCall == Cardinality(Served) < MaxCalls

\* The pool holds the nodes a parse and a clone of resPath construct.
CanServe(resPath) ==
    /\ CanCall
    /\ Len(pipe.handed) < MaxCompiles
    /\ 2 * ShapeSize(Template(resPath)) <= Cardinality(Free)

\* What is remembered of a fragment handed out: the call that made it, the
\* object getOrParse* returned, the nodes and the content of its tree at that
\* moment, the depth of the compiles in progress, and whether a tree handed
\* out earlier had been changed by then.
HandedOut(via, p, got, fragment) ==
    [via |-> via, got |-> got, fragment |-> fragment,
     nodes |-> Subtree(p.h, fragment.dom),
     initial |-> Shape(p.h, fragment.dom),
     depth |-> Len(pipe.stack),
     dirty |-> \E i \in 1..Len(pipe.handed) :
                  Shape(Heap, pipe.handed[i].fragment.dom) # pipe.handed[i].initial]

SetPipeline(p, entry, push) ==
    /\ SetHeap(p.h)
    /\ cache' = p.cache
    /\ pipe' = [pipe EXCEPT !.nextId = p.nextId,
                            !.lastGet = p.lastGet,
                            !.calls = Append(p.calls,
                                             Invoked("pipeline", entry.via,
                                                     <<entry.fragment.path>>, Null)),
                            !.handed = Append(@, entry),
                            !.stack = IF push THEN Append(@, Len(pipe.handed) + 1) ELSE @]

\* compileFragment(resPath), up to the call of compileHtml.
CompileFragment ==
    /\ \E resPath \in FragmentPaths :
        /\ CanServe(resPath)
        /\ LET r == getOrParseFragment(Pipeline, resPath)
           IN  SetPipeline(r.p, HandedOut("compileFragment", r.p, r.fragment, r.fragment), TRUE)
    /\ UNCHANGED <<last, cloned>>

\* compileComponent(resPath), up to the call of compileHtml.
CompileComponent ==
    /\ \E resPath \in ComponentPaths :
        /\ CanServe(resPath)
        /\ LET r == getOrParseComponent(Pipeline, resPath)
               fragment == [id |-> r.p.nextId, path |-> resPath,
                            dom |-> r.component.template.dom]
               p == [r.p EXCEPT !.nextId = @ + 1]
           IN  SetPipeline(p, HandedOut("compileComponent", p, r.component, fragment), TRUE)
    /\ UNCHANGED <<last, cloned>>

\* compileHtml has returned: the innermost compile returns its fragment.
CompileReturn ==
    /\ pipe.stack # <<>>
    /\ pipe' = [pipe EXCEPT !.stack = SubSeq(@, 1, Len(@) - 1)]
    /\ UNCHANGED <<nodeType, nodeData, attributes, attrMap, parentNode, childNodes,
                   prevSibling, nextSibling, last, cloned, cache>>

\* getRawFragment(resPath)
GetRawFragment ==
    /\ \E resPath \in FragmentPaths :
        /\ CanServe(resPath)
        /\ LET r == getOrParseFragment(Pipeline, resPath)
           IN  SetPipeline(r.p, HandedOut("getRawFragment", r.p, r.fragment, r.fragment), FALSE)
    /\ UNCHANGED <<last, cloned>>

\* The nodes the pipeline has handed out.
HandedNodes == UNION {pipe.handed[i].nodes : i \in 1..Len(pipe.handed)}

\* The heaps one call on nodes of S can leave.
TreeCalls(S) ==
    {detatchNode(Heap, node) : node \in S}
    \cup {appendChild(Heap, parent, child) : parent \in S \cap WithChildren, child \in S}
    \cup {appendSibling(Heap, node, after).h : node \in S, after \in S}
    \cup {swapNode(Heap, remove, replacement).h :
              remove \in S \cap WithChildren, replacement \in S \cap WithChildren}
    \cup {setAttribute(Heap, node, "class", "b") : node \in {n \in S : isTagNode(Heap, n)}}

\* compileHtml, or the caller of a compile, changes a tree it holds.
MutateFragment ==
    /\ pipe.mutations < MaxMutations
    /\ \E h \in TreeCalls(HandedNodes) : SetHeap(h)
    /\ pipe' = [pipe EXCEPT !.mutations = @ + 1]
    /\ UNCHANGED <<last, cloned, cache>>

PipelineNext ==
    \/ CompileFragment
    \/ CompileComponent
    \/ CompileReturn
    \/ GetRawFragment
    \/ MutateFragment

SpecPipeline == PipelineInit /\ [][PipelineNext]_vars

(***************************************************************************)
(* The service specification: one StandardPipeline, over a backend that    *)
(* defines reLinkCreatedResource or does not, serves compileFragment,      *)
(* compileComponent, getRawFragment, compileExpression, compileScript,     *)
(* compileExternalScript, linkResource and reset calls in any order.       *)
(***************************************************************************)
ServiceInit ==
    /\ nodeType = [n \in 1..PipelineNodes |-> "Free"]
    /\ nodeData = [n \in 1..PipelineNodes |-> Null]
    /\ attributes = [n \in 1..PipelineNodes |-> Null]
    /\ attrMap = [n \in 1..PipelineNodes |-> {}]
    /\ parentNode = [n \in 1..PipelineNodes |-> Null]
    /\ childNodes = [n \in 1..PipelineNodes |-> <<>>]
    /\ prevSibling = [n \in 1..PipelineNodes |-> Null]
    /\ nextSibling = [n \in 1..PipelineNodes |-> Null]
    /\ last = NoCall
    /\ cloned = NoClone
    /\ cache = EmptyCache
    /\ pipe \in {[NoPipe EXCEPT !.reLinkCreatedResource = defined] : defined \in BOOLEAN}

\* The values compileExpression is given, the scripts compileScript is given
\* and the arguments of linkResource.
ExpressionValues == {<<"{", "x">>, <<" ", "{", "x">>, <<"x">>}

ScriptValues == {<<"{", "x">>, <<"x", " ">>}

ResourceTypes == {"CSS", "JAVASCRIPT"}

SetService(p, op, args, result) ==
    /\ SetHeap(p.h)
    /\ cache' = p.cache
    /\ pipe' = [pipe EXCEPT !.nextId = p.nextId,
                            !.lastGet = p.lastGet,
                            !.calls = Append(p.calls, Invoked("pipeline", op, args, result))]

\* compileExpression(value, evalContext)
CompileExpression ==
    /\ CanCall
    /\ \E value \in ExpressionValues :
        SetService(compileExpression(Pipeline, value), "compileExpression", <<value>>, Null)
    /\ UNCHANGED <<last, cloned>>

\* compileScript(script, evalContext)
CompileScript ==
    /\ CanCall
    /\ \E script \in ScriptValues :
        SetService(compileScript(Pipeline, script), "compileScript", <<script>>, Null)
    /\ UNCHANGED <<last, cloned>>

\* compileExternalScript(resPath, evalContext)
CompileExternalScript ==
    /\ CanCall
    /\ \E resPath \in ScriptPaths :
        SetService(compileExternalScript(Pipeline, resPath),
                   "compileExternalScript", <<resPath>>, Null)
    /\ UNCHANGED <<last, cloned>>

\* linkResource(type, contents, sourceResPath)
LinkResource ==
    /\ CanCall
    /\ \E type \in ResourceTypes : \E contents \in Contents :
       \E sourceResPath \in FragmentPaths : \E answer \in Answers :
        SetService(linkResource(Pipeline, type, contents, sourceResPath, answer).p,
                   "linkResource", <<type, contents, sourceResPath>>,
                   linkResource(Pipeline, type, contents, sourceResPath, answer).resPath)
    /\ UNCHANGED <<last, cloned>>

\* reset()
Reset ==
    /\ CanCall
    /\ SetService(reset(Pipeline), "reset", <<>>, Null)
    /\ UNCHANGED <<last, cloned>>

ServiceNext ==
    \/ CompileFragment
    \/ CompileComponent
    \/ CompileReturn
    \/ GetRawFragment
    \/ CompileExpression
    \/ CompileScript
    \/ CompileExternalScript
    \/ LinkResource
    \/ Reset

SpecService == ServiceInit /\ [][ServiceNext]_vars

(***************************************************************************)
(* The statement specification: one StandardPipeline serves compilePage    *)
(* and compileComponent calls, one statement at a time.  The trace holds   *)
(* the operation as it starts, the calls it makes, and its return to the   *)
(* caller or the error that reaches the caller.  What the collaborators do *)
(* to the tree they are given is left to the pipeline specification.       *)
(***************************************************************************)
StatementInit ==
    /\ nodeType = [n \in 1..PipelineNodes |-> "Free"]
    /\ nodeData = [n \in 1..PipelineNodes |-> Null]
    /\ attributes = [n \in 1..PipelineNodes |-> Null]
    /\ attrMap = [n \in 1..PipelineNodes |-> {}]
    /\ parentNode = [n \in 1..PipelineNodes |-> Null]
    /\ childNodes = [n \in 1..PipelineNodes |-> <<>>]
    /\ prevSibling = [n \in 1..PipelineNodes |-> Null]
    /\ nextSibling = [n \in 1..PipelineNodes |-> Null]
    /\ last = NoCall
    /\ cloned = NoClone
    /\ cache = EmptyCache
    /\ pipe = NoPipe

Idle == pipe.frame.op = "none"

\* The parameters of the fragment context a component is compiled with, and
\* the instance objects its script returns.
ParameterSets == {{}, {<<"a", "parameter">>}}

Instances == {{<<"a", "instance">>}, {<<"b", "instance">>}}

SetFrame(p, frame) ==
    /\ SetHeap(p.h)
    /\ cache' = p.cache
    /\ pipe' = [pipe EXCEPT !.nextId = p.nextId,
                            !.lastGet = p.lastGet,
                            !.calls = p.calls,
                            !.frame = frame]

\* compilePage(resPath), up to the fragment compileFragment gets.
StartCompilePage ==
    /\ Idle
    /\ \E resPath \in FragmentPaths :
        /\ CanServe(resPath)
        /\ LET r == getOrParseFragment(
                        Called(Pipeline, "pipeline", "compilePage", <<resPath>>, Null),
                        resPath)
           IN  SetFrame(r.p, [op |-> "compilePage", resPath |-> resPath,
                              fragment |-> r.fragment, component |-> NoEntry,
                              parameters |-> {}, instance |-> {},
                              steps |-> compilePageSteps, pc |-> 1])
    /\ UNCHANGED <<last, cloned>>

\* compileComponent(resPath, fragmentContext), up to the fragment it creates.
StartCompileComponent ==
    /\ Idle
    /\ \E resPath \in ComponentPaths : \E parameters \in ParameterSets :
        /\ CanServe(resPath)
        /\ LET r == getOrParseComponent(
                        Called(Pipeline, "pipeline", "compileComponent",
                               <<resPath, parameters>>, Null),
                        resPath)
           IN  SetFrame(r.p, [op |-> "compileComponent", resPath |-> resPath,
                              fragment |-> [path |-> resPath,
                                            dom |-> r.component.template.dom],
                              component |-> r.component,
                              parameters |-> parameters, instance |-> {},
                              steps |-> compileComponentSteps(r.component), pc |-> 1])
    /\ UNCHANGED <<last, cloned>>

\* The next call of the operation in progress returns, and the operation
\* goes on; the instance script returns an instance object.
CallReturns ==
    /\ ~Idle
    /\ pipe.frame.pc <= Len(pipe.frame.steps)
    /\ \E instance \in IF pipe.frame.steps[pipe.frame.pc] = "invoke" THEN Instances
                         ELSE {pipe.frame.instance} :
        SetFrame(Called(Pipeline, StepOn(pipe.frame.steps[pipe.frame.pc]),
                        pipe.frame.steps[pipe.frame.pc],
                        StepArgs(pipe.frame, pipe.frame.steps[pipe.frame.pc]),
                        IF pipe.frame.steps[pipe.frame.pc] = "invoke" THEN instance
                        ELSE Null),
                 [pipe.frame EXCEPT !.pc = @ + 1, !.instance = instance])
    /\ UNCHANGED <<last, cloned>>

\* The next call of the operation in progress raises: the operation ends and
\* the error reaches its caller.
CallRaises ==
    /\ ~Idle
    /\ pipe.frame.pc <= Len(pipe.frame.steps)
    /\ "raised" \in Outcomes(pipe.frame.steps[pipe.frame.pc])
    /\ pipe' = [pipe EXCEPT
                    !.calls = @ \o <<Raised(StepOn(pipe.frame.steps[pipe.frame.pc]),
                                            pipe.frame.steps[pipe.frame.pc],
                                            StepArgs(pipe.frame,
                                                     pipe.frame.steps[pipe.frame.pc])),
                                     Invoked("caller", "raise", <<>>, Null)>>,
                    !.frame = NoFrame]
    /\ UNCHANGED <<nodeType, nodeData, attributes, attrMap, parentNode, childNodes,
                   prevSibling, nextSibling, last, cloned, cache>>

\* The operation in progress has made its calls and returns.
OperationReturns ==
    /\ ~Idle
    /\ pipe.frame.pc > Len(pipe.frame.steps)
    /\ pipe' = [pipe EXCEPT !.calls = Append(@, Invoked("caller", "return", <<>>, Null)),
                            !.frame = NoFrame]
    /\ UNCHANGED <<nodeType, nodeData, attributes, attrMap, parentNode, childNodes,
                   prevSibling, nextSibling, last, cloned, cache>>

StatementNext ==
    \/ StartCompilePage
    \/ StartCompileComponent
    \/ CallReturns
    \/ CallRaises
    \/ OperationReturns

SpecStatement == StatementInit /\ [][StatementNext]_vars

(***************************************************************************)
(* The cache specification: one PipelineCache receives store*, clear, has* *)
(* and get* calls.  pipe.history holds the store and clear calls in order; *)
(* last holds the latest call, with the value it returned or whether it    *)
(* threw, and the cache it started from.                                   *)
(***************************************************************************)
CacheMaps ==
    {"page", "fragment", "component", "scriptText",
     "expression", "script", "externalScript", "createdResource"}

\* The keys the calls use on each map.
KeysOf(map) ==
    CASE map \in {"page", "fragment", "component", "scriptText"} -> FragmentPaths
      [] map \in {"expression", "script"} -> {<<"{", "x">>, <<"x">>}
      [] map = "externalScript" -> ScriptPaths
      [] map = "createdResource" -> Hashes

\* The values stored under a key: pages, fragments and components carry the
\* key as their resId.
ValuesOf(map, key) ==
    CASE map \in {"page", "fragment", "component"} ->
             {[id |-> i, resId |-> key] : i \in 1..MaxObjects}
      [] map \in {"scriptText", "expression", "script"} -> {[id |-> i] : i \in 1..MaxObjects}
      [] map = "externalScript" -> {<<"x">>, <<"{", "x">>}
      [] map = "createdResource" -> {"u", "v"}

has(c, map, key) ==
    CASE map = "page" -> hasPage(c, key)
      [] map = "fragment" -> hasFragment(c, key)
      [] map = "component" -> hasComponent(c, key)
      [] map = "scriptText" -> hasScriptText(c, key)
      [] map = "expression" -> hasExpression(c, key)
      [] map = "script" -> hasScript(c, key)
      [] map = "externalScript" -> hasExternalScript(c, key)
      [] map = "createdResource" -> hasCreatedResource(c, key)

get(c, map, key) ==
    CASE map = "page" -> [threw |-> getPage(c, key).threw, result |-> getPage(c, key).page]
      [] map = "fragment" ->
             [threw |-> getFragment(c, key).threw, result |-> getFragment(c, key).fragment]
      [] map = "component" ->
             [threw |-> getComponent(c, key).threw, result |-> getComponent(c, key).component]
      [] map = "scriptText" ->
             [threw |-> getScriptText(c, key).threw,
              result |-> getScriptText(c, key).templateFunc]
      [] map = "expression" ->
             [threw |-> getExpression(c, key).threw,
              result |-> getExpression(c, key).expressionFunc]
      [] map = "script" ->
             [threw |-> getScript(c, key).threw, result |-> getScript(c, key).scriptFunc]
      [] map = "externalScript" ->
             [threw |-> getExternalScript(c, key).threw,
              result |-> getExternalScript(c, key).script]
      [] map = "createdResource" ->
             [threw |-> getCreatedResource(c, key).threw,
              result |-> getCreatedResource(c, key).resPath]

store(c, map, key, value) ==
    CASE map = "page" -> storePage(c, value)
      [] map = "fragment" -> storeFragment(c, value)
      [] map = "component" -> storeComponent(c, value)
      [] map = "scriptText" -> storeScriptText(c, key, value)
      [] map = "expression" -> storeExpression(c, key, value)
      [] map = "script" -> storeScript(c, key, value)
      [] map = "externalScript" -> storeExternalScript(c, key, value)
      [] map = "createdResource" -> storeCreatedResource(c, key, value)

CacheInit ==
    /\ nodeType = <<>>
    /\ nodeData = <<>>
    /\ attributes = <<>>
    /\ attrMap = <<>>
    /\ parentNode = <<>>
    /\ childNodes = <<>>
    /\ prevSibling = <<>>
    /\ nextSibling = <<>>
    /\ last = NoCall
    /\ cloned = NoClone
    /\ cache = EmptyCache
    /\ pipe = [history |-> <<>>]

CacheCall(op, map, key, value, threw, result) ==
    [op |-> op, map |-> map, key |-> key, value |-> value, threw |-> threw,
     result |-> result, pre |-> cache]

\* storePage, storeFragment, storeComponent, storeScriptText, ...
CacheStore ==
    /\ Len(pipe.history) < MaxCacheOps
    /\ \E map \in CacheMaps : \E key \in KeysOf(map) : \E value \in ValuesOf(map, key) :
        /\ cache' = store(cache, map, key, value)
        /\ pipe' = [pipe EXCEPT !.history =
                        Append(@, [op |-> "store", map |-> map, key |-> key, value |-> value])]
        /\ last' = CacheCall("store", map, key, value, FALSE, Null)
    /\ UNCHANGED <<nodeType, nodeData, attributes, attrMap, parentNode, childNodes,
                   prevSibling, nextSibling, cloned>>

\* hasPage, hasFragment, hasComponent, hasScriptText, ...
CacheHas ==
    /\ \E map \in CacheMaps : \E key \in KeysOf(map) :
        last' = CacheCall("has", map, key, Null, FALSE, has(cache, map, key))
    /\ UNCHANGED <<nodeType, nodeData, attributes, attrMap, parentNode, childNodes,
                   prevSibling, nextSibling, cloned, cache, pipe>>

\* getPage, getFragment, getComponent, getScriptText, ...
CacheGet ==
    /\ \E map \in CacheMaps : \E key \in KeysOf(map) :
        last' = CacheCall("get", map, key, Null, get(cache, map, key).threw,
                          get(cache, map, key).result)
    /\ UNCHANGED <<nodeType, nodeData, attributes, attrMap, parentNode, childNodes,
                   prevSibling, nextSibling, cloned, cache, pipe>>

\* clear()
CacheClear ==
    /\ Len(pipe.history) < MaxCacheOps
    /\ cache' = cacheClear(cache)
    /\ pipe' = [pipe EXCEPT !.history = Append(@, [op |-> "clear"])]
    /\ last' = CacheCall("clear", "", "", Null, FALSE, Null)
    /\ UNCHANGED <<nodeType, nodeData, attributes, attrMap, parentNode, childNodes,
                   prevSibling, nextSibling, cloned>>

CacheNext ==
    \/ CacheStore
    \/ CacheHas
    \/ CacheGet
    \/ CacheClear

SpecCache == CacheInit /\ [][CacheNext]_vars

(***************************************************************************)
(* Helpers of the properties.                                              *)
(***************************************************************************)
\* The arguments of the observed call.
Arg(i) == last.args[i]

\* The list arguments of the observed call, after its first argument.
RestArgs == Tail(last.args)

Observed(op) == last.op = op

\* Number of positions of s that hold node.
Occurrences(s, node) == Cardinality({i \in 1..Len(s) : s[i] = node})

Elems(s) == {s[i] : i \in 1..Len(s)}

\* s with every element of the set S removed, order kept.
WithoutAll(s, S) == SelectSeq(s, LAMBDA c : c \notin S)

\* s with its first occurrence of node replaced by the list r.
Substitute(s, node, r) ==
    LET i == IndexOf(s, node) + 1
    IN  SubSeq(s, 1, i - 1) \o r \o SubSeq(s, i + 1, Len(s))

\* The proper ancestors of node in heap h (the parent chain may be cyclic).
RECURSIVE ParentChain(_, _, _)
ParentChain(h, S, k) ==
    IF k = 0 THEN S
    ELSE ParentChain(h, S \cup ({h.parentNode[m] : m \in S} \ {Null}), k - 1)

Ancestors(h, node) ==
    ParentChain(h, {h.parentNode[node]} \ {Null}, Cardinality(DOMAIN h.parentNode))

\* The sibling links of the children of parent follow the order of its list.
SiblingLinksMatch(h, parent) ==
    LET c == h.childNodes[parent]
    IN  \A i \in 1..Len(c) :
            /\ h.prevSibling[c[i]] = (IF i = 1 THEN Null ELSE c[i - 1])
            /\ h.nextSibling[c[i]] = (IF i = Len(c) THEN Null ELSE c[i + 1])

(***************************************************************************)
(* C1: after any sequence of tree operations every node is in at most one  *)
(* parent's childNodes and at most once in it, a node is in P.childNodes   *)
(* exactly when its parentNode is P, and the sibling links of the children *)
(* of every parent are their neighbours in childNodes order, null at the   *)
(* ends.                                                                   *)
(***************************************************************************)
ChildListsMatchParents ==
    \A n \in Live :
        /\ Cardinality({p \in Live : Includes(childNodes[p], n)}) <= 1
        /\ \A p \in Live :
               /\ Occurrences(childNodes[p], n) <= 1
               /\ Includes(childNodes[p], n) <=> parentNode[n] = p

\* C1: every node is in at most one child list, at most once, exactly in that
\* of its parentNode, and sibling links follow the order of the child lists.
C1_TreeConsistent ==
    /\ ChildListsMatchParents
    /\ \A p \in Live : SiblingLinksMatch(Heap, p)

\* A call has moved a node from one parent to the middle or end of another
\* parent's list of two or more children.
C1_Witness ==
    /\ ~Observed("none")
    /\ \E n \in Live :
           /\ last.pre.parentNode[n] # Null
           /\ parentNode[n] # Null
           /\ parentNode[n] # last.pre.parentNode[n]
           /\ prevSibling[n] # Null
           /\ Len(last.pre.childNodes[last.pre.parentNode[n]]) >= 2

(***************************************************************************)
(* C2 as stated: after appendChild(A, B), B.parentNode is A, B is the last *)
(* element of A.childNodes, B.nextSibling is null, B.prevSibling is A's    *)
(* former last child (or null), and if B had a different parent it is no   *)
(* longer in that parent's childNodes and its former neighbours are linked *)
(* to each other.                                                          *)
(***************************************************************************)
AppendChildMoves(A, B) ==
    LET oldParent == last.pre.parentNode[B]
        oldPrev == last.pre.prevSibling[B]
        oldNext == last.pre.nextSibling[B]
    IN  /\ parentNode[B] = A
        /\ getLastNode(childNodes[A]) = B
        /\ nextSibling[B] = Null
        /\ (oldParent # Null /\ oldParent # A) =>
               /\ ~Includes(childNodes[oldParent], B)
               /\ oldPrev # Null => nextSibling[oldPrev] = oldNext
               /\ oldNext # Null => prevSibling[oldNext] = oldPrev

\* C2 as stated: after appendChild(A, B), B is the last child of A and its
\* prevSibling is the former last child of A.
C2_AppendChildAsStated ==
    Observed("appendChild") =>
        /\ AppendChildMoves(Arg(1), Arg(2))
        /\ prevSibling[Arg(2)] = getLastNode(last.pre.childNodes[Arg(1)])

(***************************************************************************)
(* C2 amended: as stated, except that B.prevSibling is the last of A's     *)
(* former children other than B (or null when there is none): B may be A's *)
(* former last child itself.                                               *)
(***************************************************************************)
C2_AppendChild ==
    Observed("appendChild") =>
        /\ AppendChildMoves(Arg(1), Arg(2))
        /\ prevSibling[Arg(2)] = getLastNode(Without(last.pre.childNodes[Arg(1)], Arg(2)))

\* appendChild has moved B from another parent, between two siblings there,
\* behind the last child of A.
C2_Witness ==
    /\ Observed("appendChild")
    /\ last.pre.parentNode[Arg(2)] \notin {Null, Arg(1)}
    /\ last.pre.prevSibling[Arg(2)] # Null
    /\ last.pre.nextSibling[Arg(2)] # Null
    /\ prevSibling[Arg(2)] # Null

(***************************************************************************)
(* C3 as stated: detatchNode twice leaves the state of detatchNode once,   *)
(* and detatchNode of a node with no parent changes nothing in any other   *)
(* node's parent, child list or sibling links.                             *)
(***************************************************************************)
DetachIsIdempotent == detatchNode(Heap, Arg(1)) = Heap

OthersUnchanged(fields) ==
    \A m \in Live \ {Arg(1)} :
        /\ "parentNode" \in fields => parentNode[m] = last.pre.parentNode[m]
        /\ "childNodes" \in fields => childNodes[m] = last.pre.childNodes[m]
        /\ "prevSibling" \in fields => prevSibling[m] = last.pre.prevSibling[m]
        /\ "nextSibling" \in fields => nextSibling[m] = last.pre.nextSibling[m]

C5_SiblingOfDocumentThrows ==
    (Observed("appendSibling") \/ Observed("prependSibling")) =>
        /\ isDocumentNode(Heap, Arg(2)) => last.threw
        /\ last.threw => Links(Heap) = last.pre

\* A call with a Document reference node has thrown, and the node to insert
\* was attached between two siblings.
C5_Witness ==
    /\ Observed("appendSibling") \/ Observed("prependSibling")
    /\ isDocumentNode(Heap, Arg(2))
    /\ last.threw
    /\ parentNode[Arg(1)] # Null
    /\ prevSibling[Arg(1)] # Null
    /\ nextSibling[Arg(1)] # Null

(***************************************************************************)
(* C6 as stated: for R attached to P and a list of one or more nodes       *)
(* distinct from R and not ancestors of R, after replaceNode(R, list) the  *)
(* children of P are the former children with R substituted by the list,   *)
(* the siblings that surrounded R are adjacent to the first and the last   *)
(* node of the list, and R has no parent and no sibling links.             *)
(***************************************************************************)
ReplaceApplies ==
    /\ Observed("replaceNode")
    /\ last.pre.parentNode[Arg(1)] # Null
    /\ \A n \in Elems(RestArgs) :
           n # Arg(1) /\ n \notin Ancestors(last.pre, Arg(1))

\* A Document node has no place among siblings: a call on it throws.
ReplacedIsNoDocument == ~isDocumentNode(Heap, Arg(1))

Detached(n) ==
    parentNode[n] = Null /\ prevSibling[n] = Null /\ nextSibling[n] = Null

ReplaceSurroundings ==
    LET oldPrev == last.pre.prevSibling[Arg(1)]
        oldNext == last.pre.nextSibling[Arg(1)]
        first == Head(RestArgs)
        final == RestArgs[Len(RestArgs)]
    IN  /\ prevSibling[first] = oldPrev
        /\ oldPrev # Null => nextSibling[oldPrev] = first
        /\ nextSibling[final] = oldNext
        /\ oldNext # Null => prevSibling[oldNext] = final

\* C6 as stated: replaceNode(R, [n1..nk]) puts n1..nk in the place of R among
\* the children of P, between the former neighbours of R, and detaches R.
C6_ReplaceAsStated ==
    ReplaceApplies =>
        LET P == last.pre.parentNode[Arg(1)]
        IN  /\ ~last.threw
            /\ childNodes[P] = Substitute(last.pre.childNodes[P], Arg(1), RestArgs)
            /\ ReplaceSurroundings
            /\ Detached(Arg(1))

(***************************************************************************)
(* C6 amended: for R attached to P and a list of one or more pairwise      *)
(* distinct nodes, distinct from R, not ancestors of R, and none but the   *)
(* last of them a Document node, after replaceNode(R, list) the children   *)
(* of P are the former children other than the nodes of the list, with R   *)
(* substituted by the list, their sibling links follow that order, every   *)
(* node of the list has parent P, and R has no parent and no sibling       *)
(* links.  (A node of the list that was a child of P is moved; a Document  *)
(* node before the end of the list makes the next insertion throw.)        *)
(***************************************************************************)
PairwiseDistinct(s) == \A i, j \in 1..Len(s) : s[i] = s[j] => i = j

\* C6 amended: the same, for R not a Document node and replacements that are
\* pairwise distinct nodes of which at most the last is a Document node.
C6_Replace ==
    (/\ ReplaceApplies
     /\ ReplacedIsNoDocument
     /\ PairwiseDistinct(RestArgs)
     /\ \A i \in 1..(Len(RestArgs) - 1) : ~isDocumentNode(Heap, RestArgs[i])) =>
        LET P == last.pre.parentNode[Arg(1)]
        IN  /\ ~last.threw
            /\ childNodes[P] =
                   Substitute(WithoutAll(last.pre.childNodes[P], Elems(RestArgs)),
                              Arg(1), RestArgs)
            /\ SiblingLinksMatch(Heap, P)
            /\ \A n \in Elems(RestArgs) : parentNode[n] = P
            /\ Detached(Arg(1))

\* replaceNode has put two nodes in the place of a node that had a sibling.
C6_Witness ==
    /\ ReplaceApplies
    /\ PairwiseDistinct(RestArgs)
    /\ Len(RestArgs) = 2
    /\ ~last.threw
    /\ Len(last.pre.childNodes[last.pre.parentNode[Arg(1)]]) >= 2
    /\ Elems(RestArgs) \cap Elems(last.pre.childNodes[last.pre.parentNode[Arg(1)]]) = {}
    /\ Len(childNodes[last.pre.parentNode[Arg(1)]]) = 3

(***************************************************************************)
(* C7 as stated: after swapNode(remove, replacement) the childNodes of     *)
(* remove are those it had before the call and the childNodes of           *)
(* replacement are those it had before the call.                           *)
(***************************************************************************)
C7_SwapAsStated ==
    Observed("swapNode") =>
        /\ childNodes[Arg(1)] = last.pre.childNodes[Arg(1)]
        /\ childNodes[Arg(2)] = last.pre.childNodes[Arg(2)]

(***************************************************************************)
(* C7 amended: swapNode(remove, replacement), for remove not a Document    *)
(* node, replacement other than remove and neither a child nor an ancestor *)
(* of remove, and neither node a child of itself, puts replacement in the  *)
(* place of remove and detaches remove; replacement keeps its own children *)
(* and receives the children of remove behind them, in order, and remove   *)
(* is left with no children.                                               *)
(***************************************************************************)
SwapApplies ==
    /\ Observed("swapNode")
    /\ ~isDocumentNode(Heap, Arg(1))
    /\ Arg(2) # Arg(1)
    /\ Arg(2) \notin Elems(last.pre.childNodes[Arg(1)])
    /\ Arg(2) \notin Elems(last.pre.childNodes[Arg(2)])
    /\ Arg(1) \notin Elems(last.pre.childNodes[Arg(1)])
    /\ Arg(2) \notin Ancestors(last.pre, Arg(1))

\* C7 amended: replacement takes the place of remove and receives the children
\* of remove behind its own; remove is left detached and without children.
C7_Swap ==
    SwapApplies =>
        LET P == last.pre.parentNode[Arg(1)]
        IN  /\ ~last.threw
            /\ childNodes[Arg(2)] =
                   last.pre.childNodes[Arg(2)] \o last.pre.childNodes[Arg(1)]
            /\ childNodes[Arg(1)] = <<>>
            /\ Detached(Arg(1))
            /\ parentNode[Arg(2)] = P
            /\ P # Null =>
                   childNodes[P] =
                       Substitute(Without(last.pre.childNodes[P], Arg(2)),
                                  Arg(1), <<Arg(2)>>)

\* swapNode has replaced an attached node that had a child.
C7_Witness ==
    /\ SwapApplies
    /\ last.pre.parentNode[Arg(1)] # Null
    /\ last.pre.childNodes[Arg(1)] # <<>>
    /\ parentNode[Arg(2)] = last.pre.parentNode[Arg(1)]

(***************************************************************************)
(* C8: in every reachable state a Document node has no parent and no       *)
(* sibling links.                                                          *)
(***************************************************************************)
C8_DocumentIsRoot ==
    \A n \in Live : isDocumentNode(Heap, n) => Detached(n)

(***************************************************************************)
(* C4: a deep clone has the same kinds of nodes, the same content (an      *)
(* import node's src, as, fragment and component included), the same       *)
(* attribute entries and the same shape as its original; none of its nodes *)
(* and none of its attribute Maps is one that existed before the clone;    *)
(* and calls on the nodes of one of the two trees leave every node of the  *)
(* other with its parent, children, sibling links and attributes.          *)
(***************************************************************************)
\* Everything a node holds: its links and the entries of its Map.
NodeState(h, n) ==
    [type |-> h.nodeType[n],
     data |-> h.nodeData[n],
     map |-> h.attributes[n],
     attrs |-> IF h.attributes[n] = Null THEN {} ELSE h.attrMap[h.attributes[n]],
     parentNode |-> h.parentNode[n],
     childNodes |-> h.childNodes[n],
     prevSibling |-> h.prevSibling[n],
     nextSibling |-> h.nextSibling[n]]

MapsIn(h, S) == {h.attributes[n] : n \in S} \ {Null}

\* C4: a deep clone equals its original in shape and content, shares no node
\* and no Map with it, and calls on one tree leave the other unchanged.
C4_DeepCloneIndependent ==
    cloned.orig # Null =>
        /\ cloned.copyNodes \cap LiveIn(cloned.pre) = {}
        /\ MapsIn(cloned.post, cloned.copyNodes)
               \cap MapsIn(cloned.pre, LiveIn(cloned.pre)) = {}
        /\ cloned.deep =>
               Shape(cloned.post, cloned.copy) = Shape(cloned.pre, cloned.orig)
        /\ cloned.touched # "original" =>
               \A n \in LiveIn(cloned.pre) : NodeState(Heap, n) = NodeState(cloned.pre, n)
        /\ cloned.touched # "copy" =>
               \A n \in cloned.copyNodes : NodeState(Heap, n) = NodeState(cloned.post, n)

\* A document holding an import node that holds a text has been cloned
\* deeply, and two calls have changed the copy.
C4_Witness ==
    /\ cloned.orig # Null
    /\ cloned.deep
    /\ isDocumentNode(cloned.pre, cloned.orig)
    /\ Cardinality(cloned.copyNodes) = CloneNodes
    /\ \E n \in cloned.copyNodes :
           /\ cloned.post.nodeType[n] = "MImport"
           /\ cloned.post.childNodes[n] # <<>>
           /\ attrMap[attributes[n]] # cloned.post.attrMap[attributes[n]]
    /\ cloned.touched = "copy"
    /\ cloned.mutations = MaxMutations
    /\ Links(Heap) # Links(cloned.post)

(***************************************************************************)
(* C9, as stated: every get of a fragment or component, by the cache       *)
(* (PipelineCache.getFragment / getComponent) or by the pipeline           *)
(* (getOrParseFragment / getOrParseComponent / getRawFragment), yields an  *)
(* object other than the stored master whose tree shares no node with the  *)
(* master's.                                                               *)
(***************************************************************************)
\* The objects stored in the cache, and the nodes of their trees.
Masters ==
    {cache.fragmentCache[k] : k \in {x \in Keys : hasFragment(cache, x)}}
    \cup {cache.componentCache[k] : k \in {x \in Keys : hasComponent(cache, x)}}

MasterDoms ==
    {cache.fragmentCache[k].dom : k \in {x \in Keys : hasFragment(cache, x)}}
    \cup {cache.componentCache[k].template.dom : k \in {x \in Keys : hasComponent(cache, x)}}

MasterNodes == UNION {Subtree(Heap, dom) : dom \in MasterDoms}

HandedIsClone(e) ==
    /\ \A m \in Masters : e.got.id # m.id /\ e.fragment.id # m.id
    /\ e.fragment.dom \notin MasterDoms
    /\ Subtree(Heap, e.fragment.dom) \cap MasterNodes = {}

PipelineHandsOutClones == \A i \in 1..Len(pipe.handed) : HandedIsClone(pipe.handed[i])

\* C9 as stated: no get, of the cache or of the pipeline, returns the stored
\* master or a tree sharing a node with it.
C9_EveryGetClones ==
    /\ pipe.lastGet.op # "none" => \A m \in Masters : pipe.lastGet.result.id # m.id
    /\ PipelineHandsOutClones

(***************************************************************************)
(* C9, amended: PipelineCache.getFragment / getComponent return the stored *)
(* object itself; it is the pipeline's getOrParseFragment,                 *)
(* getOrParseComponent and getRawFragment, on hit and on miss, that return *)
(* a new object whose tree is a clone sharing no node with the stored      *)
(* tree, also after the trees handed out have been changed.                *)
(***************************************************************************)
C9_PipelineGetClones ==
    /\ pipe.lastGet.op = "getFragment" =>
           pipe.lastGet.result = cache.fragmentCache[pipe.lastGet.key]
    /\ pipe.lastGet.op = "getComponent" =>
           pipe.lastGet.result = cache.componentCache[pipe.lastGet.key]
    /\ PipelineHandsOutClones

\* A fragment has been handed out on a cache hit, after a tree handed out
\* earlier had been changed.
C9_Witness ==
    /\ pipe.lastGet.op = "getFragment"
    /\ Len(pipe.handed) = 2
    /\ pipe.handed[2].fragment.path = pipe.lastGet.key
    /\ pipe.handed[2].dirty

(***************************************************************************)
(* C10: the fragments two compileFragment calls of one path return are     *)
(* distinct objects with distinct trees, and the tree of each had, when    *)
(* getOrParseFragment returned it, the content of the parsed resource,     *)
(* whatever was done to the first before the second call and also when the *)
(* second call is made while the first is in progress.                     *)
(***************************************************************************)
Compiled == {i \in 1..Len(pipe.handed) : pipe.handed[i].via = "compileFragment"}

\* C10: two compileFragment calls of one path return distinct fragments with
\* distinct trees, each with the content of the parsed resource when returned.
C10_CompileTwice ==
    /\ \A i \in Compiled :
           pipe.handed[i].initial = Template(pipe.handed[i].fragment.path)
    /\ \A i \in Compiled, j \in Compiled :
           i < j =>
               /\ pipe.handed[i].fragment.id # pipe.handed[j].fragment.id
               /\ pipe.handed[i].fragment.dom # pipe.handed[j].fragment.dom
               /\ pipe.handed[i].nodes \cap pipe.handed[j].nodes = {}

\* The second compileFragment of a path was made while the first was in
\* progress and had changed its tree.
C10_Witness ==
    /\ Compiled = {1, 2}
    /\ pipe.handed[1].fragment.path = pipe.handed[2].fragment.path
    /\ pipe.handed[2].depth = 1
    /\ pipe.handed[2].dirty

(***************************************************************************)
(* C11.  has*(k) never raises; get*(k) raises exactly when has*(k) is      *)
(* false; when has*(k) is true get*(k) returns the value most recently     *)
(* stored under k and leaves the cache as it was.                          *)
(***************************************************************************)
\* What the store and clear calls of history leave under key of map: the
\* value of the latest store after the latest clear, if there is one.
RECURSIVE LatestStored(_, _, _)
LatestStored(history, map, key) ==
    IF Len(history) = 0 THEN [stored |-> FALSE]
    ELSE IF history[Len(history)].op = "clear" THEN [stored |-> FALSE]
    ELSE IF history[Len(history)].map = map /\ history[Len(history)].key = key
         THEN [stored |-> TRUE, value |-> history[Len(history)].value]
    ELSE LatestStored(SubSeq(history, 1, Len(history) - 1), map, key)

\* C11: a has* call returns without raising, a get* call raises exactly when
\* has* is false on the same cache and otherwise returns the value most
\* recently stored under the key; neither changes the cache.
C11_HasGetContract ==
    /\ last.op = "has" =>
           /\ ~last.threw
           /\ last.result = LatestStored(pipe.history, last.map, last.key).stored
           /\ cache = last.pre
    /\ last.op = "get" =>
           /\ last.threw <=> ~has(last.pre, last.map, last.key)
           /\ ~last.threw =>
                  /\ LatestStored(pipe.history, last.map, last.key).stored
                  /\ last.result = LatestStored(pipe.history, last.map, last.key).value
           /\ cache = last.pre

\* A get* of a key that was stored twice, with two different values.
C11_Witness ==
    /\ last.op = "get"
    /\ ~last.threw
    /\ Len(pipe.history) = 2
    /\ pipe.history[1].op = "store"
    /\ pipe.history[2].op = "store"
    /\ pipe.history[1].map = last.map
    /\ pipe.history[2].map = last.map
    /\ pipe.history[1].key = last.key
    /\ pipe.history[2].key = last.key
    /\ pipe.history[1].value # pipe.history[2].value
    /\ last.result = pipe.history[2].value

(***************************************************************************)
(* C12.  store* is an idempotent overwrite that touches one key of one     *)
(* mapping.                                                                *)
(***************************************************************************)
\* Every key of a mapping, used or not.
DomainOf(map) ==
    CASE map \in {"page", "fragment", "component", "scriptText"} -> Keys
      [] map \in {"expression", "script"} -> Texts
      [] map = "externalScript" -> ScriptPaths
      [] map = "createdResource" -> Hashes

\* What the has* and get* methods tell about key of map.
View(c, map, key) == [has |-> has(c, map, key), value |-> get(c, map, key).result]

SameKey(map, key) == map = last.map /\ key = last.key

\* C12: after a store* the key holds the value stored, whatever it held
\* before; storing the same value again leaves the cache as it is; every
\* other key of the mapping and every key of the other mappings is as before.
C12_StoreOverwrites ==
    last.op = "store" =>
        /\ View(cache, last.map, last.key) = [has |-> TRUE, value |-> last.value]
        /\ store(cache, last.map, last.key, last.value) = cache
        /\ \A map \in CacheMaps : \A key \in DomainOf(map) :
               ~SameKey(map, key) => View(cache, map, key) = View(last.pre, map, key)

\* A store* over an entry that held another value.
C12_Witness ==
    /\ last.op = "store"
    /\ has(last.pre, last.map, last.key)
    /\ get(last.pre, last.map, last.key).result # last.value
    /\ get(cache, last.map, last.key).result = last.value

(***************************************************************************)
(* C13.  clear() empties every mapping, and nothing else removes an entry. *)
(***************************************************************************)
\* C13: after clear() has*(k) is false for every key of every mapping; a
\* has*, get* or store* call leaves has*(k) true wherever it was true.
C13_OnlyClearRemoves ==
    /\ last.op = "clear" =>
           \A map \in CacheMaps : \A key \in DomainOf(map) : ~has(cache, map, key)
    /\ last.op \in {"has", "get", "store"} =>
           \A map \in CacheMaps : \A key \in DomainOf(map) :
               has(last.pre, map, key) => has(cache, map, key)

\* A clear() of a cache that held a component.
C13_Witness ==
    /\ last.op = "clear"
    /\ \E key \in Keys : hasComponent(last.pre, key) /\ ~hasComponent(cache, key)

(***************************************************************************)
(* C14.  With no reset() in between, a resource is fetched and parsed once *)
(* and later calls are served from the cache.                              *)
(***************************************************************************)
\* The position of the last reset() in the trace, 0 if there is none.
LastReset ==
    IF \E i \in Served : pipe.calls[i].op = "reset"
    THEN CHOOSE i \in Served :
             /\ pipe.calls[i].op = "reset"
             /\ \A j \in Served : pipe.calls[j].op = "reset" => j <= i
    ELSE 0

\* The calls made since the last reset().
SinceReset == (LastReset + 1)..Len(pipe.calls)

Fetches(type, resPath) ==
    {i \in SinceReset : /\ pipe.calls[i].op = "getResource"
                        /\ pipe.calls[i].args = <<type, resPath>>}

Parses(op, resPath) ==
    {i \in SinceReset : pipe.calls[i].op = op /\ pipe.calls[i].args = <<resPath>>}

\* The compileFragment, compileComponent, getRawFragment and
\* compileExternalScript calls served for resPath since the last reset().
ServedFor(resPath) ==
    {i \in Served \cap SinceReset :
        /\ pipe.calls[i].op \in {"compileFragment", "compileComponent", "getRawFragment",
                                  "compileExternalScript"}
        /\ pipe.calls[i].args = <<resPath>>}

\* C14 as stated: getResource and the parser are invoked at most once per
\* resource path.
C14_OncePerPath ==
    \A resPath \in Keys \cup ScriptPaths :
        /\ Cardinality(Fetches("HTML", resPath) \cup Fetches("JAVASCRIPT", resPath)) <= 1
        /\ Cardinality(Parses("parseFragment", resPath)
                       \cup Parses("parseComponent", resPath)) <= 1

\* C14 amended: at most once per resource path for each kind of cached
\* object.  A path is parsed as a fragment at most once and as a component
\* at most once, each parse after one getResource of its own, and a script
\* path is fetched at most once.
C14_OncePerPathAndKind ==
    \A resPath \in Keys \cup ScriptPaths :
        /\ Cardinality(Parses("parseFragment", resPath)) <= 1
        /\ Cardinality(Parses("parseComponent", resPath)) <= 1
        /\ Cardinality(Fetches("JAVASCRIPT", resPath)) <= 1
        /\ Cardinality(Fetches("HTML", resPath))
               = Cardinality(Parses("parseFragment", resPath))
                 + Cardinality(Parses("parseComponent", resPath))
        /\ ServedFor(resPath) # {} =>
               Fetches("HTML", resPath) \cup Fetches("JAVASCRIPT", resPath) # {}

\* Two fragment calls for one path with no reset() in between, and one
\* fetch and one parse of that path.
C14_Witness ==
    \E resPath \in FragmentPaths :
        /\ Cardinality(ServedFor(resPath)) = 2
        /\ \A i \in ServedFor(resPath) :
               pipe.calls[i].op \in {"compileFragment", "getRawFragment"}
        /\ Cardinality(Fetches("HTML", resPath)) = 1
        /\ Cardinality(Parses("parseFragment", resPath)) = 1

(***************************************************************************)
(* C15.  linkResource deduplicates by content.                             *)
(***************************************************************************)
\* The linkResource calls served since the last reset().
LinkCalls == {i \in Served \cap SinceReset : pipe.calls[i].op = "linkResource"}

LinkedContents(i) == pipe.calls[i].args[2]

\* The createResource calls made for contents since the last reset().
CreatesOf(contents) ==
    {i \in SinceReset : /\ pipe.calls[i].op = "createResource"
                        /\ pipe.calls[i].args[2] = contents}

\* The createResource calls made for a digest since the last reset().
CreatesOfHash(hash) ==
    {i \in SinceReset : /\ pipe.calls[i].op = "createResource"
                        /\ fastHashContent(pipe.calls[i].args[2]) = hash}

\* C15 as stated: two links of identical content return the same path and
\* createResource is invoked exactly once for it; two links of differing
\* contents return distinct paths.
C15_DedupByContent ==
    \A i \in LinkCalls : \A j \in LinkCalls :
        /\ LinkedContents(i) = LinkedContents(j) =>
               /\ pipe.calls[i].result = pipe.calls[j].result
               /\ Cardinality(CreatesOf(LinkedContents(i))) = 1
        /\ LinkedContents(i) # LinkedContents(j) =>
               pipe.calls[i].result # pipe.calls[j].result

\* C15 amended: linkResource deduplicates by content digest.  Whatever the
\* backend, createResource is invoked exactly once for each digest linked.
\* Over a backend without reLinkCreatedResource two links return the same
\* path exactly when their contents have the same digest; over a backend
\* with it, a link that finds its digest returns what the relink answers.
C15_DedupByHash ==
    \A i \in LinkCalls :
        /\ Cardinality(CreatesOfHash(fastHashContent(LinkedContents(i)))) = 1
        /\ ~pipe.reLinkCreatedResource =>
               \A j \in LinkCalls :
                   (fastHashContent(LinkedContents(i)) = fastHashContent(LinkedContents(j)))
                       <=> (pipe.calls[i].result = pipe.calls[j].result)
        /\ pipe.reLinkCreatedResource =>
               /\ pipe.calls[i - 1].op \in {"createResource", "reLinkCreatedResource"}
               /\ pipe.calls[i - 1].result = pipe.calls[i].result
               /\ pipe.calls[i - 1].op = "createResource"
                      <=> \A j \in LinkCalls :
                              fastHashContent(LinkedContents(i))
                                  = fastHashContent(LinkedContents(j)) => i <= j

\* Over a backend without reLinkCreatedResource: two links of one content
\* from different sources and a link of another content.
C15_Witness ==
    /\ ~pipe.reLinkCreatedResource
    /\ \E i \in LinkCalls : \E j \in LinkCalls : \E k \in LinkCalls :
        /\ i < j
        /\ LinkedContents(i) = LinkedContents(j)
        /\ pipe.calls[i].args[3] # pipe.calls[j].args[3]
        /\ pipe.calls[i].result = pipe.calls[j].result
        /\ fastHashContent(LinkedContents(k)) # fastHashContent(LinkedContents(i))
        /\ pipe.calls[k].result # pipe.calls[i].result

(***************************************************************************)
(* C16.  When linkResource asks the backend to relink.                     *)
(***************************************************************************)
\* The links served before link i, since the last reset(), for contents of
\* the same digest.
PriorLinks(i) ==
    {j \in LinkCalls : /\ j < i
                       /\ fastHashContent(LinkedContents(j))
                              = fastHashContent(LinkedContents(i))}

\* Link i asked the backend to relink.
Relinked(i) == i > 1 /\ pipe.calls[i - 1].op = "reLinkCreatedResource"

\* The path createResource returned for the digest of link i.
OriginalPath(i) ==
    pipe.calls[CHOOSE k \in CreatesOfHash(fastHashContent(LinkedContents(i))) : TRUE].result

\* Type and source of link i are those of every prior link of its digest.
SameAsBefore(i) ==
    \A j \in PriorLinks(i) : /\ pipe.calls[j].args[1] = pipe.calls[i].args[1]
                              /\ pipe.calls[j].args[3] = pipe.calls[i].args[3]

\* C16 as stated: a link that finds a prior link of its content asks the
\* backend to relink only if the backend defines reLinkCreatedResource and
\* type or source differ from before; with the same type and source it
\* returns the path assigned before and makes no backend call.
C16_RelinkOnlyIfDiffers ==
    \A i \in LinkCalls :
        PriorLinks(i) # {} =>
            /\ Relinked(i) => pipe.reLinkCreatedResource /\ ~SameAsBefore(i)
            /\ SameAsBefore(i) =>
                   /\ pipe.calls[i - 1].on = "pipeline"
                   /\ pipe.calls[i].result = OriginalPath(i)

\* C16 amended: a link that finds a prior link of its content asks the
\* backend to relink exactly when the backend defines reLinkCreatedResource,
\* whatever type and source are; it passes its own type, contents and source
\* and the path createResource returned, and returns the answer.  Over a
\* backend that does not define it, the path createResource returned is
\* returned without a backend call.
C16_RelinkWheneverDefined ==
    \A i \in LinkCalls :
        PriorLinks(i) # {} =>
            IF pipe.reLinkCreatedResource
            THEN /\ Relinked(i)
                 /\ pipe.calls[i - 1].args
                        = <<pipe.calls[i].args[1], pipe.calls[i].args[2],
                            pipe.calls[i].args[3], OriginalPath(i)>>
                 /\ pipe.calls[i].result = pipe.calls[i - 1].result
            ELSE /\ pipe.calls[i - 1].on = "pipeline"
                 /\ pipe.calls[i].result = OriginalPath(i)

\* Over a backend with reLinkCreatedResource: a second link with the type,
\* contents and source of the first, for which the backend was asked and
\* answered a path of its own.
C16_Witness ==
    /\ pipe.reLinkCreatedResource
    /\ \E i \in LinkCalls :
        /\ PriorLinks(i) # {}
        /\ \A j \in PriorLinks(i) : pipe.calls[j].args = pipe.calls[i].args
        /\ Relinked(i)
        /\ pipe.calls[i].result # OriginalPath(i)

(***************************************************************************)
(* C17.  reset() returns the pipeline to its initial condition.            *)
(***************************************************************************)
\* The position of the last reset() before call i, 0 if there is none.
ResetBefore(i) ==
    IF \E k \in Served : k < i /\ pipe.calls[k].op = "reset"
    THEN CHOOSE k \in Served :
             /\ k < i
             /\ pipe.calls[k].op = "reset"
             /\ \A j \in Served : j < i /\ pipe.calls[j].op = "reset" => j <= k
    ELSE 0

\* The operations that read the fragment map, and the one that reads the
\* component map.
FragmentOps == {"compileFragment", "getRawFragment"}

ComponentOps == {"compileComponent"}

\* Call i is the first of ops for its argument since the reset() before it.
FirstSinceReset(i, ops) ==
    \A j \in Served :
        ResetBefore(i) < j /\ j < i /\ pipe.calls[j].op \in ops
            => pipe.calls[j].args # pipe.calls[i].args

FirstLinkSinceReset(i) ==
    \A j \in Served :
        ResetBefore(i) < j /\ j < i /\ pipe.calls[j].op = "linkResource"
            => fastHashContent(pipe.calls[j].args[2]) # fastHashContent(pipe.calls[i].args[2])

\* Call i was served after a getResource and a parse of its path.
Fetched(i, parser) ==
    /\ i > 2
    /\ pipe.calls[i - 2].op = "getResource"
    /\ pipe.calls[i - 2].args = <<"HTML", pipe.calls[i].args[1]>>
    /\ pipe.calls[i - 1].op = parser
    /\ pipe.calls[i - 1].args = pipe.calls[i].args

\* C17: right after reset() no mapping of the cache has an entry, as in a
\* new pipeline; the first compile of a path after a reset() invokes
\* getResource and the parser, and the first link of a content after a
\* reset() invokes createResource, whatever was compiled or linked before
\* the reset().
C17_ResetIsFresh ==
    /\ Len(pipe.calls) > 0 /\ pipe.calls[Len(pipe.calls)].op = "reset" =>
           \A map \in CacheMaps : \A key \in DomainOf(map) : ~has(cache, map, key)
    /\ \A i \in Served :
           /\ pipe.calls[i].op \in FragmentOps /\ FirstSinceReset(i, FragmentOps) =>
                  Fetched(i, "parseFragment")
           /\ pipe.calls[i].op \in ComponentOps /\ FirstSinceReset(i, ComponentOps) =>
                  Fetched(i, "parseComponent")
           /\ pipe.calls[i].op = "linkResource" /\ FirstLinkSinceReset(i) =>
                  i > 1 /\ pipe.calls[i - 1].op = "createResource"

\* A path compiled before a reset() and again after it, with a fetch and a
\* parse after the reset().
C17_Witness ==
    \E i \in Served : \E j \in Served :
        /\ i < ResetBefore(j)
        /\ pipe.calls[i].op = "compileFragment"
        /\ pipe.calls[j].op = "compileFragment"
        /\ pipe.calls[i].args = pipe.calls[j].args
        /\ Fetched(i, "parseFragment")
        /\ Fetched(j, "parseFragment")

(***************************************************************************)
(* C19.  Expressions and scripts are compiled once per text and served     *)
(* from the cache afterwards.                                              *)
(***************************************************************************)
\* The expression and script calls served since the last reset().
ExpressionCalls ==
    {i \in Served \cap SinceReset :
        pipe.calls[i].op = "compileExpression" /\ isExpressionString(pipe.calls[i].args[1])}

ScriptCalls == {i \in Served \cap SinceReset : pipe.calls[i].op = "compileScript"}

\* Call i invoked the unit func just before it returned.
InvokedUnit(i, func) ==
    /\ i > 1
    /\ pipe.calls[i - 1].op = "invoke"
    /\ func.id # 0
    /\ pipe.calls[i - 1].args[1] = func.id

ParsedOnce ==
    \A text \in Texts :
        /\ Cardinality(Parses("parseExpression", text)) <= 1
        /\ Cardinality(Parses("parseScript", text)) <= 1

\* C19 as stated: each text is compiled at most once, and a call invokes the
\* unit the cache holds under the literal text it was given.
C19_KeyIsLiteralText ==
    /\ ParsedOnce
    /\ \A i \in ExpressionCalls :
           InvokedUnit(i, getExpression(cache, pipe.calls[i].args[1]).expressionFunc)
    /\ \A i \in ScriptCalls :
           InvokedUnit(i, getScript(cache, pipe.calls[i].args[1]).scriptFunc)

\* C19 amended: the cache key is the text without its leading and trailing
\* white space.  Each trimmed text is compiled at most once as an expression
\* and at most once as a script, with the trimmed text as the argument of the
\* parse, and a call invokes the unit the cache holds under the trimmed text;
\* a value that is no expression string is neither compiled nor invoked.
C19_KeyIsTrimmedText ==
    /\ ParsedOnce
    /\ \A text \in Texts :
           text # trim(text) =>
               Parses("parseExpression", text) \cup Parses("parseScript", text) = {}
    /\ \A i \in ExpressionCalls :
           InvokedUnit(i, getExpression(cache, trim(pipe.calls[i].args[1])).expressionFunc)
    /\ \A i \in ScriptCalls :
           InvokedUnit(i, getScript(cache, trim(pipe.calls[i].args[1])).scriptFunc)
    /\ \A i \in Served :
           pipe.calls[i].op = "compileExpression"
               /\ ~isExpressionString(pipe.calls[i].args[1])
               => i = 1 \/ pipe.calls[i - 1].on = "pipeline"

\* Two compileExpression calls whose values differ in white space only: one
\* parse, and both invoke the one unit.
C19_Witness ==
    \E i \in ExpressionCalls : \E j \in ExpressionCalls :
        /\ i < j
        /\ pipe.calls[i].args # pipe.calls[j].args
        /\ trim(pipe.calls[i].args[1]) = trim(pipe.calls[j].args[1])
        /\ pipe.calls[i - 1].args = pipe.calls[j - 1].args
        /\ Cardinality(Parses("parseExpression", trim(pipe.calls[i].args[1]))) = 1

(***************************************************************************)
(* C18.  compilePage writes the page once, last, or not at all.            *)
(***************************************************************************)
\* The positions in the trace where an operation op starts.
Starts(op) ==
    {i \in 1..Len(pipe.calls) : pipe.calls[i].on = "pipeline" /\ pipe.calls[i].op = op}

\* The position where the operation started at i returns or raises; one past
\* the trace if it is in progress.
EndOf(i) ==
    IF \E j \in (i + 1)..Len(pipe.calls) : pipe.calls[j].on = "caller"
    THEN CHOOSE j \in (i + 1)..Len(pipe.calls) :
             /\ pipe.calls[j].on = "caller"
             /\ \A k \in (i + 1)..(j - 1) : pipe.calls[k].on # "caller"
    ELSE Len(pipe.calls) + 1

Ended(i, how) == EndOf(i) <= Len(pipe.calls) /\ pipe.calls[EndOf(i)].op = how

AfterFetch(call) == call.op \notin {"getResource", "parseFragment", "parseComponent"}

\* The calls the operation started at i has made after it got its fragment
\* or component.
StepsOf(i) == SelectSeq(SubSeq(pipe.calls, i + 1, EndOf(i) - 1), AfterFetch)

OpsOf(i) == [k \in 1..Len(StepsOf(i)) |-> StepsOf(i)[k].op]

IsPrefix(s, t) == Len(s) <= Len(t) /\ s = SubSeq(t, 1, Len(s))

\* Only the last call of an operation can have raised, and then the
\* operation has ended with the error.
RaiseEnds(i) ==
    \A k \in 1..Len(StepsOf(i)) :
        StepsOf(i)[k].raised => k = Len(StepsOf(i)) /\ Ended(i, "raise")

PageOrder ==
    <<"compileHtml", "buildPage", "formatDom", "toHtml", "formatHtml", "writeResource">>

\* C18: compilePage makes its calls in the order directive compilation, page
\* assembly, tree formatting, serialization, text formatting, writeResource.
\* If it returns, it has made them all, so writeResource was invoked once,
\* for the page, as the last call; if a call raises, the error reaches the
\* caller and no writeResource call has been completed for the page.
C18_WriteLastOrNever ==
    \A i \in Starts("compilePage") :
        /\ IsPrefix(OpsOf(i), PageOrder)
        /\ RaiseEnds(i)
        /\ Ended(i, "return") =>
               /\ OpsOf(i) = PageOrder
               /\ StepsOf(i)[Len(PageOrder)].args = <<"HTML", pipe.calls[i].args[1]>>
               /\ ~StepsOf(i)[Len(PageOrder)].raised
        /\ Ended(i, "raise") =>
               /\ StepsOf(i)[Len(StepsOf(i))].raised
               /\ \A k \in 1..Len(StepsOf(i)) :
                      StepsOf(i)[k].op = "writeResource" => StepsOf(i)[k].raised

\* One compilePage that returned after writing its page, and one that
\* ended when formatHtml raised.
C18_Witness ==
    \E i \in Starts("compilePage") : \E j \in Starts("compilePage") :
        /\ Ended(i, "return")
        /\ OpsOf(i)[Len(OpsOf(i))] = "writeResource"
        /\ Ended(j, "raise")
        /\ OpsOf(j)[Len(OpsOf(j))] = "formatHtml"

(***************************************************************************)
(* C20.  compileComponent: script, then template, then style.              *)
(***************************************************************************)
\* The calls of a compileComponent in order, for a component with and
\* without a style.
ComponentOrder(resPath) ==
    IF ComponentStyle(resPath).defined
    THEN <<"invoke", "compileHtml", "compileCss", "bindStyle">>
    ELSE <<"invoke", "compileHtml">>

\* C20: a compileComponent invokes the instance script once, before the
\* template is compiled; compileHtml is given the scope made of the
\* parameters of the call overlaid by the instance object the script
\* returned; the style, if the component has one, is compiled and bound
\* after compileHtml has returned, and a component without a style has
\* neither call.
C20_ScriptTemplateStyle ==
    \A i \in Starts("compileComponent") :
        /\ IsPrefix(OpsOf(i), ComponentOrder(pipe.calls[i].args[1]))
        /\ RaiseEnds(i)
        /\ Ended(i, "return") => OpsOf(i) = ComponentOrder(pipe.calls[i].args[1])
        /\ \A k \in 1..Len(StepsOf(i)) :
               StepsOf(i)[k].op = "compileHtml" =>
                   StepsOf(i)[k].args[2]
                       = createFragmentScope(pipe.calls[i].args[2], StepsOf(i)[1].result)

\* A compileComponent of the component with a style that has returned: its
\* script returned an instance object that defines a parameter of the call
\* anew, and bindStyle was its last call.
C20_Witness ==
    \E i \in Starts("compileComponent") :
        /\ Ended(i, "return")
        /\ OpsOf(i) = <<"invoke", "compileHtml", "compileCss", "bindStyle">>
        /\ pipe.calls[i].args[2] = {<<"a", "parameter">>}
        /\ StepsOf(i)[1].result = {<<"a", "instance">>}
        /\ StepsOf(i)[2].args[2] = {<<"a", "instance">>}

(***************************************************************************)
(* Contexts.  A FragmentContext, the Maps and the scope it refers to, a    *)
(* PipelineContext and an EvalContext are objects with an identity: the    *)
(* pipeline state carries them in p.objects, and the identity of an object *)
(* is its position there.  A field that refers to an object holds its      *)
(* identity.                                                               *)
(***************************************************************************)
MaxContexts == 1

NewObject(p, object) == [p EXCEPT !.objects = Append(@, object)]

\* { slotContents: new Map(), parameters: new Map(), scope: {} }
defaultFragmentContext(p) ==
    NewObject(
        NewObject(
            NewObject(
                NewObject(p, [kind |-> "Map", entries |-> {}]),
                [kind |-> "Map", entries |-> {}]),
            [kind |-> "Scope", entries |-> {}]),
        [kind |-> "FragmentContext", slotContents |-> Len(p.objects) + 1,
         parameters |-> Len(p.objects) + 2, scope |-> Len(p.objects) + 3])

\* { pipeline: this, fragment, fragmentContext }
newPipelineContext(p, fragment, fragmentContext) ==
    NewObject(p, [kind |-> "PipelineContext", fragment |-> fragment.id,
                  fragmentContext |-> fragmentContext])

\* this.htmlCompiler.compileHtml(fragment, pipelineContext) with a new
\* pipeline context over fragmentContext.
compileHtml(p, fragment, fragmentContext) ==
    Called(newPipelineContext(p, fragment, fragmentContext),
           "htmlCompiler", "compileHtml", <<fragment.path, Len(p.objects) + 1>>, Null)

\* compileFragment after getOrParseFragment has returned r.
compileFragmentUnder(r, fragmentContext) ==
    [p |-> IF fragmentContext = Null
           THEN compileHtml(defaultFragmentContext(r.p), r.fragment,
                            Len(r.p.objects) + 4)
           ELSE compileHtml(r.p, r.fragment, fragmentContext),
     fragment |-> r.fragment]

\* compileFragment(resPath, fragmentContext); Null is no context.
compileFragment(p, resPath, fragmentContext) ==
    compileFragmentUnder(getOrParseFragment(p, resPath), fragmentContext)

\* The fragment compileComponent creates over the template of the component.
componentFragment(r, resPath) ==
    [id |-> r.component.id, path |-> resPath, dom |-> r.component.template.dom]

\* component.script.scriptFunction.invoke(new EvalContext(pipelineContext,
\* fragmentContext.scope)), which returns componentInstance.
invokeInstance(p, fragment, fragmentContext, componentInstance) ==
    Called(NewObject(newPipelineContext(p, fragment, fragmentContext),
                     [kind |-> "EvalContext", pipelineContext |-> Len(p.objects) + 1,
                      scope |-> p.objects[fragmentContext].scope]),
           "scriptFunction", "invoke", <<Len(p.objects) + 2>>, componentInstance)

\* Mutant: the scope of the component is assigned to the context of the
\* caller, which is then the context of the compile.
componentFragmentContext_InPlace(p, fragmentContext, componentInstance) ==
    [NewObject(
        NewObject(p, [kind |-> "Scope",
                      entries |-> createFragmentScope(
                          p.objects[p.objects[fragmentContext].parameters].entries,
                          componentInstance)]),
        p.objects[fragmentContext])
     EXCEPT !.objects[fragmentContext].scope = Len(p.objects) + 1]

\* { slotContents: fragmentContext.slotContents,
\*   parameters: fragmentContext.parameters,
\*   scope: createFragmentScope(fragmentContext.parameters, componentInstance) }
componentFragmentContext(p, fragmentContext, componentInstance) ==
    NewObject(
        NewObject(p, [kind |-> "Scope",
                      entries |-> createFragmentScope(
                          p.objects[p.objects[fragmentContext].parameters].entries,
                          componentInstance)]),
        [kind |-> "FragmentContext",
         slotContents |-> p.objects[fragmentContext].slotContents,
         parameters |-> p.objects[fragmentContext].parameters,
         scope |-> Len(p.objects) + 1])

\* if (component.style != undefined): compileCss and bindStyle.
compileStyle(p, component) ==
    IF component.style.defined
    THEN Called(Called(p, "this", "compileCss", <<component.style.styleContent>>, Null),
                "styleBinder", "bindStyle",
                <<component.resPath, compileCss(component.style.styleContent),
                  component.style.bindType>>, Null)
    ELSE p

\* compileComponent after getOrParseComponent has returned r.
compileComponentUnder(r, fragment, fragmentContext, componentInstance) ==
    [p |-> compileStyle(
               compileHtml(
                   componentFragmentContext(
                       invokeInstance(r.p, fragment, fragmentContext, componentInstance),
                       fragmentContext, componentInstance),
                   fragment, Len(r.p.objects) + 4),
               r.component),
     fragment |-> fragment]

\* compileComponent(resPath, fragmentContext), whose instance script returns
\* componentInstance.
compileComponent(p, resPath, fragmentContext, componentInstance) ==
    compileComponentUnder(getOrParseComponent(p, resPath),
                          componentFragment(getOrParseComponent(p, resPath), resPath),
                          fragmentContext, componentInstance)

(***************************************************************************)
(* The context specification: a caller builds fragment contexts and calls  *)
(* compileFragment, with one of them or with none, and compileComponent.   *)
(* pipe.given holds the contexts the caller built; last holds the latest   *)
(* call and the objects as they were before it.                            *)
(***************************************************************************)
ContextInit ==
    /\ nodeType = [n \in 1..PipelineNodes |-> "Free"]
    /\ nodeData = [n \in 1..PipelineNodes |-> Null]
    /\ attributes = [n \in 1..PipelineNodes |-> Null]
    /\ attrMap = [n \in 1..PipelineNodes |-> {}]
    /\ parentNode = [n \in 1..PipelineNodes |-> Null]
    /\ childNodes = [n \in 1..PipelineNodes |-> <<>>]
    /\ prevSibling = [n \in 1..PipelineNodes |-> Null]
    /\ nextSibling = [n \in 1..PipelineNodes |-> Null]
    /\ last = [op |-> "none"]
    /\ cloned = NoClone
    /\ cache = EmptyCache
    /\ pipe = [nextId |-> 1, handed |-> <<>>, lastGet |-> NoGet, calls |-> <<>>,
               reLinkCreatedResource |-> FALSE, objects |-> <<>>, given |-> {}]

ContextPipeline ==
    [h |-> Heap, cache |-> cache, nextId |-> pipe.nextId, lastGet |-> pipe.lastGet,
     calls |-> pipe.calls, reLinkCreatedResource |-> pipe.reLinkCreatedResource,
     objects |-> pipe.objects]

SetContext(p, call) ==
    /\ SetHeap(p.h)
    /\ cache' = p.cache
    /\ pipe' = [pipe EXCEPT !.nextId = p.nextId, !.lastGet = p.lastGet,
                            !.calls = p.calls, !.objects = p.objects]
    /\ last' = call

SlotContentSets == {{}, {<<"[default]", "content">>}}

ScopeSets == {{}, {<<"a", "outer">>}}

\* The caller builds a FragmentContext out of two Maps and a scope.
NewContext ==
    /\ Cardinality(pipe.given) < MaxContexts
    /\ \E slotContents \in SlotContentSets, parameters \in ParameterSets,
          scope \in ScopeSets :
        pipe' = [pipe EXCEPT
                    !.objects = @ \o <<[kind |-> "Map", entries |-> slotContents],
                                       [kind |-> "Map", entries |-> parameters],
                                       [kind |-> "Scope", entries |-> scope],
                                       [kind |-> "FragmentContext",
                                        slotContents |-> Len(pipe.objects) + 1,
                                        parameters |-> Len(pipe.objects) + 2,
                                        scope |-> Len(pipe.objects) + 3]>>,
                    !.given = @ \cup {Len(pipe.objects) + 4}]
    /\ UNCHANGED <<nodeType, nodeData, attributes, attrMap, parentNode, childNodes,
                   prevSibling, nextSibling, last, cloned, cache>>

ContextCompileFragment ==
    /\ \E resPath \in FragmentPaths, fragmentContext \in pipe.given \cup {Null} :
        /\ CanServe(resPath)
        /\ SetContext(compileFragment(
                          Called(ContextPipeline, "pipeline", "compileFragment",
                                 <<resPath, fragmentContext>>, Null),
                          resPath, fragmentContext).p,
                      [op |-> "compileFragment", resPath |-> resPath,
                       fragmentContext |-> fragmentContext, pre |-> pipe.objects])
    /\ UNCHANGED cloned

ContextCompileComponent ==
    /\ \E resPath \in ComponentPaths, fragmentContext \in pipe.given,
          componentInstance \in Instances :
        /\ CanServe(resPath)
        /\ SetContext(compileComponent(
                          Called(ContextPipeline, "pipeline", "compileComponent",
                                 <<resPath, fragmentContext>>, Null),
                          resPath, fragmentContext, componentInstance).p,
                      [op |-> "compileComponent", resPath |-> resPath,
                       fragmentContext |-> fragmentContext, pre |-> pipe.objects])
    /\ UNCHANGED cloned

ContextNext ==
    \/ NewContext
    \/ ContextCompileFragment
    \/ ContextCompileComponent

SpecContext == ContextInit /\ [][ContextNext]_vars

(***************************************************************************)
(* C21: the context of the caller after a compile.                         *)
(***************************************************************************)
\* The pipeline context of the latest compileHtml call, and the fragment
\* context it refers to.
CompileHtmlCalls ==
    {i \in 1..Len(pipe.calls) : pipe.calls[i].op = "compileHtml"}

LatestPipelineContext ==
    pipe.calls[CHOOSE i \in CompileHtmlCalls : \A j \in CompileHtmlCalls : j <= i].args[2]

LatestFragmentContext == pipe.objects[LatestPipelineContext].fragmentContext

IsNew(id) == id > Len(last.pre) /\ id <= Len(pipe.objects)

\* The objects that refer to the object id.
Referrers(id) ==
    {o \in 1..Len(pipe.objects) :
        \/ /\ pipe.objects[o].kind = "FragmentContext"
           /\ id \in {pipe.objects[o].slotContents, pipe.objects[o].parameters,
                      pipe.objects[o].scope}
        \/ /\ pipe.objects[o].kind = "EvalContext"
           /\ id = pipe.objects[o].scope}

CallerContextKept ==
    last.fragmentContext # Null =>
        /\ pipe.objects[last.fragmentContext] = last.pre[last.fragmentContext]
        /\ \A field \in {last.pre[last.fragmentContext].slotContents,
                         last.pre[last.fragmentContext].parameters,
                         last.pre[last.fragmentContext].scope} :
              pipe.objects[field] = last.pre[field]

CompiledUnderNewContext ==
    /\ IsNew(LatestPipelineContext)
    /\ pipe.objects[LatestPipelineContext].kind = "PipelineContext"
    /\ last.op = "compileFragment" /\ last.fragmentContext # Null
           => LatestFragmentContext = last.fragmentContext
    /\ last.op = "compileComponent"
           => /\ IsNew(LatestFragmentContext)
              /\ IsNew(pipe.objects[LatestFragmentContext].scope)
              /\ pipe.objects[LatestFragmentContext].slotContents
                     = last.pre[last.fragmentContext].slotContents
              /\ pipe.objects[LatestFragmentContext].parameters
                     = last.pre[last.fragmentContext].parameters

DefaultContextIsFresh ==
    last.op = "compileFragment" /\ last.fragmentContext = Null =>
        /\ IsNew(LatestFragmentContext)
        /\ \A field \in {pipe.objects[LatestFragmentContext].slotContents,
                         pipe.objects[LatestFragmentContext].parameters,
                         pipe.objects[LatestFragmentContext].scope} :
              /\ IsNew(field)
              /\ pipe.objects[field].entries = {}
              /\ Referrers(field) = {LatestFragmentContext}
        /\ pipe.objects[LatestFragmentContext].slotContents
               # pipe.objects[LatestFragmentContext].parameters

\* C21: a compileFragment or compileComponent call leaves the FragmentContext
\* it was given as it was (the same slotContents, parameters and scope, with
\* the same content) and hands compileHtml a pipeline context it has newly
\* constructed, for compileComponent over a new fragment context with a new
\* scope; a compileFragment call without a context compiles under new, empty
\* slotContents, parameters and scope that nothing else refers to.
C21_ContextNotMutated ==
    last.op \in {"compileFragment", "compileComponent"} =>
        /\ CallerContextKept
        /\ CompiledUnderNewContext
        /\ DefaultContextIsFresh

\* A component has been compiled with a context of the caller that has a
\* parameter and an outer scope, under a scope that differs from the scope of
\* the caller, after a fragment was compiled without a context.
C21_Witness ==
    /\ last.op = "compileComponent"
    /\ pipe.objects[pipe.objects[last.fragmentContext].parameters].entries # {}
    /\ pipe.objects[pipe.objects[last.fragmentContext].scope].entries # {}
    /\ pipe.objects[pipe.objects[LatestFragmentContext].scope].entries
           # pipe.objects[pipe.objects[last.fragmentContext].scope].entries
    /\ \E i \in 1..Len(pipe.calls) :
          /\ pipe.calls[i].op = "compileFragment"
          /\ pipe.calls[i].args[2] = Null

(***************************************************************************)
(* Two pipelines.  PipelineCache objects have an identity: in this         *)
(* specification cache holds the PipelineCache objects constructed so far, *)
(* in order, and a pipeline refers to its cache by position.               *)
(* pipe.instances holds the StandardPipeline objects, each with its own    *)
(* backend and the trace of its own calls; last holds the latest call, the *)
(* instance it was made on and the cache objects as they were before it.   *)
(***************************************************************************)
MaxPipelines == 2

\* Mutant: every pipeline uses the first PipelineCache constructed.
newStandardPipeline_SharedCache(caches, reLinkDefined) ==
    [caches |-> Append(caches, EmptyCache),
     pipeline |-> [cache |-> 1, lastGet |-> NoGet, calls |-> <<>>,
                   reLinkCreatedResource |-> reLinkDefined]]

\* new StandardPipeline(pipelineInterface): this.cache = new PipelineCache(),
\* whose constructor makes new Maps.
newStandardPipeline(caches, reLinkDefined) ==
    [caches |-> Append(caches, EmptyCache),
     pipeline |-> [cache |-> Len(caches) + 1, lastGet |-> NoGet, calls |-> <<>>,
                   reLinkCreatedResource |-> reLinkDefined]]

PairInit ==
    /\ nodeType = [n \in 1..PipelineNodes |-> "Free"]
    /\ nodeData = [n \in 1..PipelineNodes |-> Null]
    /\ attributes = [n \in 1..PipelineNodes |-> Null]
    /\ attrMap = [n \in 1..PipelineNodes |-> {}]
    /\ parentNode = [n \in 1..PipelineNodes |-> Null]
    /\ childNodes = [n \in 1..PipelineNodes |-> <<>>]
    /\ prevSibling = [n \in 1..PipelineNodes |-> Null]
    /\ nextSibling = [n \in 1..PipelineNodes |-> Null]
    /\ last = [op |-> "none"]
    /\ cloned = NoClone
    /\ cache = <<>>
    /\ pipe = [nextId |-> 1, objects |-> <<>>, instances |-> <<>>]

Instances2 == 1..Len(pipe.instances)

\* The pipeline state of instance j.
Instance(j) ==
    [h |-> Heap, cache |-> cache[pipe.instances[j].cache], nextId |-> pipe.nextId,
     lastGet |-> pipe.instances[j].lastGet, calls |-> pipe.instances[j].calls,
     reLinkCreatedResource |-> pipe.instances[j].reLinkCreatedResource,
     objects |-> pipe.objects]

OwnOps(j) ==
    {i \in 1..Len(pipe.instances[j].calls) : pipe.instances[j].calls[i].on = "pipeline"}

RECURSIVE OpsUpTo(_)
OpsUpTo(j) == IF j = 0 THEN 0 ELSE Cardinality(OwnOps(j)) + OpsUpTo(j - 1)

PairCanCall == OpsUpTo(Len(pipe.instances)) < MaxCalls

PairCanServe(resPath) ==
    PairCanCall /\ 2 * ShapeSize(Template(resPath)) <= Cardinality(Free)

SetInstance(j, p, op) ==
    /\ SetHeap(p.h)
    /\ cache' = [cache EXCEPT ![pipe.instances[j].cache] = p.cache]
    /\ pipe' = [pipe EXCEPT !.nextId = p.nextId, !.objects = p.objects,
                            !.instances[j].lastGet = p.lastGet,
                            !.instances[j].calls = p.calls]
    /\ last' = [op |-> op, instance |-> j, pre |-> cache]
    /\ UNCHANGED cloned

PairConstruct ==
    /\ Len(pipe.instances) < MaxPipelines
    /\ \E reLinkDefined \in BOOLEAN :
        /\ cache' = newStandardPipeline(cache, reLinkDefined).caches
        /\ pipe' = [pipe EXCEPT !.instances =
                        Append(@, newStandardPipeline(cache, reLinkDefined).pipeline)]
    /\ UNCHANGED <<nodeType, nodeData, attributes, attrMap, parentNode, childNodes,
                   prevSibling, nextSibling, last, cloned>>

PairCompileFragment ==
    \E j \in Instances2, resPath \in FragmentPaths :
        /\ PairCanServe(resPath)
        /\ SetInstance(j, compileFragment(
                              Called(Instance(j), "pipeline", "compileFragment",
                                     <<resPath, Null>>, Null),
                              resPath, Null).p,
                       "compileFragment")

\* The caller compiles a component with an empty context it has built.
PairCompileComponent ==
    \E j \in Instances2, resPath \in ComponentPaths :
        /\ PairCanServe(resPath)
        /\ SetInstance(j, compileComponent(
                              Called(defaultFragmentContext(Instance(j)), "pipeline",
                                     "compileComponent",
                                     <<resPath, Len(pipe.objects) + 4>>, Null),
                              resPath, Len(pipe.objects) + 4, {<<"a", "instance">>}).p,
                       "compileComponent")

PairCompileExternalScript ==
    \E j \in Instances2, resPath \in ScriptPaths :
        /\ PairCanCall
        /\ SetInstance(j, compileExternalScript(
                              Called(Instance(j), "pipeline", "compileExternalScript",
                                     <<resPath>>, Null),
                              resPath),
                       "compileExternalScript")

PairLinkResource ==
    \E j \in Instances2, contents \in Contents, answer \in Answers :
        /\ PairCanCall
        /\ SetInstance(j, linkResource(
                              Called(Instance(j), "pipeline", "linkResource",
                                     <<"CSS", contents, "a">>, Null),
                              "CSS", contents, "a", answer).p,
                       "linkResource")

PairReset ==
    \E j \in Instances2 :
        /\ PairCanCall
        /\ SetInstance(j, reset(Called(Instance(j), "pipeline", "reset", <<>>, Null)),
                       "reset")

PairNext ==
    \/ PairConstruct
    \/ PairCompileFragment
    \/ PairCompileComponent
    \/ PairCompileExternalScript
    \/ PairLinkResource
    \/ PairReset

SpecPair == PairInit /\ [][PairNext]_vars

(***************************************************************************)
(* C22: two pipelines.                                                     *)
(***************************************************************************)
OwnCall(j, i) == pipe.instances[j].calls[i]

\* What an operation looks up in the cache.
OwnKey(call) ==
    IF call.op = "linkResource" THEN fastHashContent(call.args[2]) ELSE call.args[1]

\* The earlier operations of instance j of the kind of its operation i, for
\* the same key, with no reset() of instance j in between.
OwnEarlier(j, i) ==
    {k \in OwnOps(j) :
        /\ k < i
        /\ OwnCall(j, k).op = OwnCall(j, i).op
        /\ OwnKey(OwnCall(j, k)) = OwnKey(OwnCall(j, i))
        /\ \A r \in (k + 1)..(i - 1) : OwnCall(j, r).op # "reset"}

\* Operation i of instance j asked the backend of j for the resource or had
\* it create one.
OwnAsked(j, i) ==
    /\ i < Len(pipe.instances[j].calls)
    /\ OwnCall(j, i + 1).op \in {"getResource", "createResource"}

OthersCachesKept ==
    last.op # "none" =>
        \A j \in Instances2 \ {last.instance} :
            pipe.instances[j].cache <= Len(last.pre) =>
                cache[pipe.instances[j].cache] = last.pre[pipe.instances[j].cache]

OwnWorkOnly ==
    \A j \in Instances2 : \A i \in OwnOps(j) :
        OwnCall(j, i).op # "reset" => (OwnAsked(j, i) <=> OwnEarlier(j, i) = {})

\* C22: the pipelines have each a PipelineCache of their own; a call on one
\* pipeline leaves the cache of every other pipeline, and so what its has*
\* and get* report, as it was; and whether an operation of a pipeline fetches
\* and parses its resource, or creates one, depends on the earlier
\* operations of that pipeline alone: it does exactly if that pipeline had
\* no such operation for that key since its last reset().
C22_NoSharedCache ==
    /\ \A j, k \in Instances2 : j # k => pipe.instances[j].cache # pipe.instances[k].cache
    /\ OthersCachesKept
    /\ OwnWorkOnly

\* Each of two pipelines has compiled the same fragment, the second fetching
\* it again from its own backend, and the cache of the first holds it.
C22_Witness ==
    /\ Len(pipe.instances) = 2
    /\ last.op = "compileFragment"
    /\ last.instance = 2
    /\ \E i \in OwnOps(1) :
          /\ OwnCall(1, i).op = "compileFragment"
          /\ OwnCall(1, i).args[1] = OwnCall(2, 1).args[1]
          /\ hasFragment(cache[pipe.instances[1].cache], OwnCall(1, i).args[1])
    /\ OwnAsked(2, 1)

(***************************************************************************)
(* Nested compiles.  compileHtml, run on a fragment, calls back into the   *)
(* pipeline for each fragment or component the fragment includes, in       *)
(* document order, and the callee runs compileHtml on what it got: the     *)
(* compile is a recursion over the inclusion graph.  pipe.includes is that *)
(* graph (what the resource of each path includes), pipe.stack the calls   *)
(* in progress, each with its steps and the position of the next one, and  *)
(* pipe.outcome how the outermost call ended and pipe.error the call that  *)
(* raised.  A call that would make the stack deeper than MaxStack fails as *)
(* the engine fails it (RangeError).                                       *)
(* What the calls do to the trees and the cache is left to the other       *)
(* specifications.                                                         *)
(***************************************************************************)
MaxStack == 7

Inclusion(op, resPath) == [op |-> op, resPath |-> resPath]

\* The inclusions a resource may hold.
InclusionLists ==
    {<<>>,
     <<Inclusion("compileFragment", "a")>>,
     <<Inclusion("compileFragment", "b")>>,
     <<Inclusion("compileComponent", "c")>>,
     <<Inclusion("compileFragment", "b"), Inclusion("compileComponent", "c")>>}

Leaf(op) == [op |-> op, resPath |-> ""]

\* The statements of an operation, each a call: compilePage calls
\* compileFragment and then the page steps; compileFragment and
\* compileComponent get their fragment and run compileHtml on it;
\* compileHtml compiles what the fragment includes.
StatementsOf(op, resPath, includes) ==
    CASE op = "compilePage" ->
             <<Inclusion("compileFragment", resPath), Leaf("buildPage"),
               Leaf("formatDom"), Leaf("toHtml"), Leaf("formatHtml"),
               Leaf("writeResource")>>
      [] op = "compileFragment" ->
             <<Leaf("getOrParseFragment"), Inclusion("compileHtml", resPath)>>
      [] op = "compileComponent" ->
             <<Leaf("getOrParseComponent"), Leaf("invoke"),
               Inclusion("compileHtml", resPath)>>
             \o (IF ComponentStyle(resPath).defined
                 THEN <<Leaf("compileCss"), Leaf("bindStyle")>> ELSE <<>>)
      [] op = "compileHtml" -> includes[resPath]

\* Mutant: a compile of a path that is being compiled is skipped.
enter_OncePerPath(stack, call, includes) ==
    IF \E i \in 1..Len(stack) : stack[i].op = call.op /\ stack[i].resPath = call.resPath
    THEN [stack EXCEPT ![Len(stack)].pc = @ + 1]
    ELSE Append(stack, [op |-> call.op, resPath |-> call.resPath,
                        steps |-> StatementsOf(call.op, call.resPath, includes),
                        pc |-> 1])

\* The call of an operation: its frame goes on the stack.
enter(stack, call, includes) ==
    Append(stack, [op |-> call.op, resPath |-> call.resPath,
                   steps |-> StatementsOf(call.op, call.resPath, includes), pc |-> 1])

RecursionInit ==
    /\ nodeType = <<>>
    /\ nodeData = <<>>
    /\ attributes = <<>>
    /\ attrMap = <<>>
    /\ parentNode = <<>>
    /\ childNodes = <<>>
    /\ prevSibling = <<>>
    /\ nextSibling = <<>>
    /\ last = [op |-> "none"]
    /\ cloned = NoClone
    /\ cache = EmptyCache
    /\ \E includes \in [Keys -> InclusionLists] :
          pipe = [includes |-> includes, stack |-> <<>>, outcome |-> "none",
                  error |-> ""]

Top == pipe.stack[Len(pipe.stack)]

AtCall ==
    /\ pipe.stack # <<>>
    /\ Top.pc <= Len(Top.steps)

AtNested == AtCall /\ Top.steps[Top.pc].resPath # ""

RecursionFrame ==
    UNCHANGED <<nodeType, nodeData, attributes, attrMap, parentNode, childNodes,
                prevSibling, nextSibling, cloned, cache>>

\* The caller calls compilePage(resPath) or compileFragment(resPath).
RecursionStart ==
    /\ pipe.stack = <<>>
    /\ pipe.outcome = "none"
    /\ \E op \in {"compilePage", "compileFragment"}, resPath \in FragmentPaths :
        /\ pipe' = [pipe EXCEPT !.stack = enter(@, Inclusion(op, resPath), pipe.includes)]
        /\ last' = [op |-> op, resPath |-> resPath]
    /\ RecursionFrame

\* The next statement calls compileFragment, compileComponent or compileHtml.
NestedCall ==
    /\ AtNested
    /\ Len(pipe.stack) < MaxStack
    /\ pipe' = [pipe EXCEPT !.stack = enter(@, Top.steps[Top.pc], pipe.includes)]
    /\ UNCHANGED last
    /\ RecursionFrame

\* The engine has no room for the frame of the next call.
StackOverflow ==
    /\ AtNested
    /\ Len(pipe.stack) >= MaxStack
    /\ pipe' = [pipe EXCEPT !.stack = <<>>, !.outcome = "raised",
                            !.error = "RangeError"]
    /\ UNCHANGED last
    /\ RecursionFrame

\* The next statement is a call on the cache, the backend, the parser, the
\* evaluator or another collaborator, and it returns.
LeafReturns ==
    /\ AtCall
    /\ ~AtNested
    /\ pipe' = [pipe EXCEPT !.stack[Len(pipe.stack)].pc = @ + 1]
    /\ UNCHANGED last
    /\ RecursionFrame

\* It raises: nothing on the way catches the error.
LeafRaises ==
    /\ AtCall
    /\ ~AtNested
    /\ "raised" \in Outcomes(Top.steps[Top.pc].op)
    /\ pipe' = [pipe EXCEPT !.stack = <<>>, !.outcome = "raised",
                            !.error = Top.steps[Top.pc].op]
    /\ UNCHANGED last
    /\ RecursionFrame

\* The operation on top has made its calls and returns to its caller.
FrameReturns ==
    /\ pipe.stack # <<>>
    /\ Top.pc > Len(Top.steps)
    /\ pipe' = [pipe EXCEPT
                    !.stack = IF Len(pipe.stack) = 1 THEN <<>>
                              ELSE [SubSeq(pipe.stack, 1, Len(pipe.stack) - 1)
                                       EXCEPT ![Len(pipe.stack) - 1].pc = @ + 1],
                    !.outcome = IF Len(pipe.stack) = 1 THEN "returned" ELSE @]
    /\ UNCHANGED last
    /\ RecursionFrame

\* A call in progress goes on: the compile is one synchronous computation,
\* and the calls it makes on its collaborators end.
Proceeds ==
    \/ NestedCall
    \/ StackOverflow
    \/ LeafReturns
    \/ LeafRaises
    \/ FrameReturns

RecursionNext ==
    \/ RecursionStart
    \/ Proceeds

SpecRecursion == RecursionInit /\ [][RecursionNext]_vars

SpecRecursionLive == SpecRecursion /\ WF_vars(Proceeds)

(***************************************************************************)
(* C23: termination of the compile.                                        *)
(***************************************************************************)
IncludedBy(resPath) ==
    {pipe.includes[resPath][i].resPath : i \in 1..Len(pipe.includes[resPath])}

\* The paths reached from the paths of from by at most fuel inclusions.
RECURSIVE ReachedWithin(_, _)
ReachedWithin(from, fuel) ==
    IF fuel = 0 THEN from
    ELSE ReachedWithin(from \cup UNION {IncludedBy(q) : q \in from}, fuel - 1)

ReachedFrom(resPath) == ReachedWithin({resPath}, Cardinality(Keys))

OnCycle(resPath) ==
    \E q \in IncludedBy(resPath) : resPath \in ReachedFrom(q)

AcyclicFrom(resPath) == \A q \in ReachedFrom(resPath) : ~OnCycle(q)

Started == last.op \in {"compilePage", "compileFragment"}

TerminatesIfAcyclic ==
    (Started /\ AcyclicFrom(last.resPath)) ~> (pipe.outcome \in {"returned", "raised"})

NoReturnIfCyclic ==
    [](Started /\ ~AcyclicFrom(last.resPath) => pipe.outcome # "returned")

\* C23: a compilePage or compileFragment call whose path reaches no inclusion
\* cycle ends, with a return or with an error, if the calls it makes on its
\* collaborators end; a call whose path reaches a cycle never returns: the
\* recursion goes on until a call raises or the stack is exhausted.
C23_Terminates == TerminatesIfAcyclic /\ NoReturnIfCyclic

\* A compilePage call has returned after compiles nested three deep, and
\* (in another behaviour) a compile on a cycle has exhausted the stack.
C23_Witness ==
    /\ Started
    /\ last.op = "compilePage"
    /\ AcyclicFrom(last.resPath)
    /\ Cardinality(ReachedFrom(last.resPath)) = 3
    /\ pipe.outcome = "returned"

C23_WitnessCycle ==
    /\ Started
    /\ ~AcyclicFrom(last.resPath)
    /\ pipe.outcome = "raised"
    /\ pipe.error = "RangeError"

(***************************************************************************)
(* C24: replaceNode on a node that has no parent.                          *)
(***************************************************************************)
\* The links of node n are what they were before the observed call.
LinksKept(n) ==
    /\ parentNode[n] = last.pre.parentNode[n]
    /\ prevSibling[n] = last.pre.prevSibling[n]
    /\ nextSibling[n] = last.pre.nextSibling[n]

\* C24: replaceNode(remove, replacements) on a node remove that has no
\* parent throws, and the replacement nodes keep the parent and the sibling
\* links they had.
C24_DetachedReplaceThrows ==
    (Observed("replaceNode") /\ last.pre.parentNode[Arg(1)] = Null) =>
        /\ last.threw
        /\ \A n \in Elems(RestArgs) : LinksKept(n)

(***************************************************************************)
(* C25: the pairs the callback of a clone is given.                        *)
(***************************************************************************)
PairOf(i) == cloned.pairs[i]

PairSet == {PairOf(i) : i \in 1..Len(cloned.pairs)}

\* The copy is the node of the same kind and content at the same place: the
\* children of the copy are, in order, the copies of the children.
PairedWithOwnCopy(old, new) ==
    /\ cloned.post.nodeType[new] = cloned.pre.nodeType[old]
    /\ cloned.post.nodeData[new] = cloned.pre.nodeData[old]
    /\ Len(cloned.post.childNodes[new]) = Len(cloned.pre.childNodes[old])
    /\ \A k \in 1..Len(cloned.pre.childNodes[old]) :
           <<cloned.pre.childNodes[old][k], cloned.post.childNodes[new][k]>> \in PairSet

DeepClonePairs ==
    /\ Len(cloned.pairs) = Cardinality(Subtree(cloned.pre, cloned.orig))
    /\ {PairOf(i)[1] : i \in 1..Len(cloned.pairs)} = Subtree(cloned.pre, cloned.orig)
    /\ {PairOf(i)[2] : i \in 1..Len(cloned.pairs)} = cloned.copyNodes
    /\ Cardinality(cloned.copyNodes) = Len(cloned.pairs)
    /\ PairOf(1) = <<cloned.orig, cloned.copy>>
    /\ \A i \in 1..Len(cloned.pairs) : PairedWithOwnCopy(PairOf(i)[1], PairOf(i)[2])
    /\ \A i, j \in 1..Len(cloned.pairs) :
           (j # 1 /\ cloned.pre.parentNode[PairOf(j)[1]] = PairOf(i)[1]) => i < j

ShallowClonePairs ==
    /\ cloned.pairs = <<<<cloned.orig, cloned.copy>>>>
    /\ cloned.post.childNodes[cloned.copy] = <<>>
    /\ cloned.post.nodeType[cloned.copy] = cloned.pre.nodeType[cloned.orig]

\* C25: a deep clone of a subtree of n nodes hands the callback n pairs, one
\* for each node of the subtree, each an original with the node that takes
\* its place in the copy, a parent before its children; a clone that is not
\* deep hands it the one pair of the node and its copy, which has no
\* children.
C25_CallbackPairs ==
    cloned.orig # Null =>
        IF cloned.deep THEN DeepClonePairs ELSE ShallowClonePairs

\* A document holding a node that holds a text has been cloned deeply.
C25_Witness ==
    /\ cloned.orig # Null
    /\ cloned.deep
    /\ Len(cloned.pairs) = CloneNodes
    /\ \E i, j \in 1..Len(cloned.pairs) :
          /\ cloned.pre.parentNode[PairOf(j)[1]] = PairOf(i)[1]
          /\ cloned.pre.parentNode[PairOf(i)[1]] = cloned.orig
    /\ cloned.mutations = 0

(***************************************************************************)
(* C26: createDomFromChildren.                                             *)
(***************************************************************************)
\* The place of node n in its tree is what it was before the observed call.
PlaceKept(n) ==
    /\ LinksKept(n)
    /\ last.pre.parentNode[n] # Null =>
           childNodes[last.pre.parentNode[n]] = last.pre.childNodes[last.pre.parentNode[n]]

WithAfter(s, x, n) ==
    SubSeq(s, 1, IndexOf(s, x) + 1) \o <<n>> \o SubSeq(s, IndexOf(s, x) + 2, Len(s))

WithBefore(s, x, n) ==
    SubSeq(s, 1, IndexOf(s, x)) \o <<n>> \o SubSeq(s, IndexOf(s, x) + 1, Len(s))

\* The observed call is appendSibling(N, X) or prependSibling(N, X) with X
\* not a Document node, attached to a parent, and N other than X.
SiblingApplies ==
    /\ Observed("appendSibling") \/ Observed("prependSibling")
    /\ Arg(1) # Arg(2)
    /\ ~isDocumentNode(Heap, Arg(2))
    /\ last.pre.parentNode[Arg(2)] # Null

SiblingPlaced(N, X, P) ==
    /\ ~last.threw
    /\ parentNode[N] = P
    /\ childNodes[P] =
           IF Observed("appendSibling")
           THEN WithAfter(WithoutAll(last.pre.childNodes[P], {N}), X, N)
           ELSE WithBefore(WithoutAll(last.pre.childNodes[P], {N}), X, N)
    /\ (last.pre.parentNode[N] # Null /\ last.pre.parentNode[N] # P) =>
           ~Includes(childNodes[last.pre.parentNode[N]], N)

\* C27: after appendSibling(N, X) (prependSibling(N, X)), for X not a
\* Document node and attached to P and N other than X, N has parent P, the
\* children of P are its former children other than N, in their order, with
\* N right after (right before) X, and N is no longer a child of the parent
\* it had; also when N was a child of P.
C27_SiblingPosition ==
    SiblingApplies => SiblingPlaced(Arg(1), Arg(2), last.pre.parentNode[Arg(2)])

\* A child of P that stood after X has been put before X by prependSibling,
\* P having a third child.
C27_Witness ==
    /\ SiblingApplies
    /\ Observed("prependSibling")
    /\ last.pre.parentNode[Arg(1)] = last.pre.parentNode[Arg(2)]
    /\ IndexOf(last.pre.childNodes[parentNode[Arg(2)]], Arg(1))
           > IndexOf(last.pre.childNodes[parentNode[Arg(2)]], Arg(2))
    /\ Len(childNodes[parentNode[Arg(2)]]) = 3
    /\ nextSibling[Arg(1)] = Arg(2)

(***************************************************************************)
(* C28: the parent relation and the sibling links have no cycle through a  *)
(* node.                                                                   *)
(***************************************************************************)
\* C28: after any calls of the tree operations no node is its own ancestor,
\* none is its own child, and none is its own prevSibling or nextSibling.
C28_Acyclic ==
    \A n \in Live :
        /\ n \notin Ancestors(Heap, n)
        /\ ~Includes(childNodes[n], n)
        /\ prevSibling[n] # n
        /\ nextSibling[n] # n

(***************************************************************************)
(* Failing fetches.  A call on the backend or on a parser may raise; the   *)
(* error ends the operation where it is, with the statements before the    *)
(* call done and those after it not.  raises names the call that raises,   *)
(* if the operation gets to it: "getResource", "parser" (parseFragment,    *)
(* parseComponent, parseScript) or "none".  The result is the pipeline     *)
(* state and whether the operation raised.                                 *)
(***************************************************************************)
Failed(p, on, op, args) ==
    [p |-> [p EXCEPT !.calls = Append(@, Raised(on, op, args))], raised |-> TRUE]

Done(p) == [p |-> p, raised |-> FALSE]

\* compileFragment(resPath): getOrParseFragment fetches and parses before it
\* stores.
compileFragmentOrRaise(p, resPath, raises) ==
    IF hasFragment(p.cache, resPath) \/ raises = "none"
    THEN Done(compileFragment(p, resPath, Null).p)
    ELSE IF raises = "getResource"
    THEN Failed(p, "pipelineInterface", "getResource", <<"HTML", resPath>>)
    ELSE Failed(getResource(p, "HTML", resPath).p,
                "resourceParser", "parseFragment", <<resPath>>)

\* compileComponent(resPath, fragmentContext), with a context the caller has
\* built: getOrParseComponent fetches and parses before it stores.
compileComponentOrRaise(p, resPath, raises) ==
    IF hasComponent(p.cache, resPath) \/ raises = "none"
    THEN Done(compileComponent(defaultFragmentContext(p), resPath,
                               Len(p.objects) + 4, {<<"a", "instance">>}).p)
    ELSE IF raises = "getResource"
    THEN Failed(p, "pipelineInterface", "getResource", <<"HTML", resPath>>)
    ELSE Failed(getResource(p, "HTML", resPath).p,
                "resourceParser", "parseComponent", <<resPath>>)

\* Mutant: the text of an external script is kept only once it has parsed.
compileExternalScriptOrRaise_ParsesFirst(p, resPath, raises) ==
    IF ~hasExternalScript(p.cache, resPath) /\ raises = "getResource"
    THEN Failed(p, "pipelineInterface", "getResource", <<"JAVASCRIPT", resPath>>)
    ELSE IF /\ raises = "parser"
            /\ ~hasScript(p.cache, trim(getOrParseExternalScript(p, resPath).script))
    THEN Failed([getOrParseExternalScript(p, resPath).p EXCEPT !.cache = p.cache],
                "evalEngine", "parseScript",
                <<trim(getOrParseExternalScript(p, resPath).script)>>)
    ELSE Done(compileExternalScript(p, resPath))

\* compileExternalScript(resPath, evalContext): getOrParseExternalScript
\* fetches the text and stores it; compileScript then parses the text, if
\* the script cache does not hold it.
compileExternalScriptOrRaise(p, resPath, raises) ==
    IF ~hasExternalScript(p.cache, resPath) /\ raises = "getResource"
    THEN Failed(p, "pipelineInterface", "getResource", <<"JAVASCRIPT", resPath>>)
    ELSE IF /\ raises = "parser"
            /\ ~hasScript(p.cache, trim(getOrParseExternalScript(p, resPath).script))
    THEN Failed(getOrParseExternalScript(p, resPath).p,
                "evalEngine", "parseScript",
                <<trim(getOrParseExternalScript(p, resPath).script)>>)
    ELSE Done(compileExternalScript(p, resPath))

(***************************************************************************)
(* The failure specification: one pipeline serves compileFragment,         *)
(* compileComponent and compileExternalScript calls, during each of which  *)
(* the backend or the parser may raise.  last holds the latest call,       *)
(* whether it raised, and the cache as it was before it.                   *)
(***************************************************************************)
FailureInit ==
    /\ nodeType = [n \in 1..PipelineNodes |-> "Free"]
    /\ nodeData = [n \in 1..PipelineNodes |-> Null]
    /\ attributes = [n \in 1..PipelineNodes |-> Null]
    /\ attrMap = [n \in 1..PipelineNodes |-> {}]
    /\ parentNode = [n \in 1..PipelineNodes |-> Null]
    /\ childNodes = [n \in 1..PipelineNodes |-> <<>>]
    /\ prevSibling = [n \in 1..PipelineNodes |-> Null]
    /\ nextSibling = [n \in 1..PipelineNodes |-> Null]
    /\ last = [op |-> "none", raised |-> FALSE]
    /\ cloned = NoClone
    /\ cache = EmptyCache
    /\ pipe = [nextId |-> 1, handed |-> <<>>, lastGet |-> NoGet, calls |-> <<>>,
               reLinkCreatedResource |-> FALSE, objects |-> <<>>]

RaisingCalls == {"none", "getResource", "parser"}

SetFailure(r, op, resPath, raises) ==
    /\ SetHeap(r.p.h)
    /\ cache' = r.p.cache
    /\ pipe' = [pipe EXCEPT !.nextId = r.p.nextId, !.lastGet = r.p.lastGet,
                            !.calls = r.p.calls, !.objects = r.p.objects]
    /\ last' = [op |-> op, resPath |-> resPath, raises |-> raises,
                raised |-> r.raised, pre |-> cache]
    /\ UNCHANGED cloned

FailingCompileFragment ==
    \E resPath \in FragmentPaths, raises \in RaisingCalls :
        /\ CanServe(resPath)
        /\ SetFailure(compileFragmentOrRaise(
                          Called(ContextPipeline, "pipeline", "compileFragment",
                                 <<resPath>>, Null),
                          resPath, raises),
                      "compileFragment", resPath, raises)

FailingCompileComponent ==
    \E resPath \in ComponentPaths, raises \in RaisingCalls :
        /\ CanServe(resPath)
        /\ SetFailure(compileComponentOrRaise(
                          Called(ContextPipeline, "pipeline", "compileComponent",
                                 <<resPath>>, Null),
                          resPath, raises),
                      "compileComponent", resPath, raises)

FailingCompileExternalScript ==
    \E resPath \in ScriptPaths, raises \in RaisingCalls :
        /\ CanCall
        /\ SetFailure(compileExternalScriptOrRaise(
                          Called(ContextPipeline, "pipeline", "compileExternalScript",
                                 <<resPath>>, Null),
                          resPath, raises),
                      "compileExternalScript", resPath, raises)

FailureNext ==
    \/ FailingCompileFragment
    \/ FailingCompileComponent
    \/ FailingCompileExternalScript

SpecFailure == FailureInit /\ [][FailureNext]_vars

(***************************************************************************)
(* C29: the cache after an operation that raised.                          *)
(***************************************************************************)
\* The calls operation i made: the entries of the trace after it, up to the
\* next operation.
CallsOf(i) ==
    {k \in (i + 1)..Len(pipe.calls) :
        \A j \in (i + 1)..k : pipe.calls[j].on # "pipeline"}

RaisedIn(i) == \E k \in CallsOf(i) : pipe.calls[k].raised

RaisedAt(i, op) ==
    \E k \in CallsOf(i) : pipe.calls[k].raised /\ pipe.calls[k].op = op

Queried(i) == \E k \in CallsOf(i) : pipe.calls[k].op = "getResource"

\* The earlier operations of the kind of operation i for the same path.
EarlierFor(i) ==
    {k \in Served : /\ k < i
                    /\ pipe.calls[k].op = pipe.calls[i].op
                    /\ pipe.calls[k].args[1] = pipe.calls[i].args[1]}

\* C29: an operation in which getResource or the parser raised leaves the
\* cache as it was, and an operation of a path queries the backend whenever
\* every earlier operation of its kind for that path raised.
C29_FailureKeepsCache ==
    /\ last.raised => cache = last.pre
    /\ \A i \in Served :
          (\A k \in EarlierFor(i) : RaisedIn(k)) => Queried(i)

\* What is left of an operation that raised for want of its resource or of
\* its parse.
KeptNothing(i) ==
    IF pipe.calls[i].op = "compileExternalScript"
    THEN RaisedAt(i, "getResource")
    ELSE RaisedIn(i)

\* C29 amended: a compileFragment or compileComponent in which getResource
\* or the parser raised, and a compileExternalScript in which getResource
\* raised, leave the cache as it was; a compileExternalScript in which the
\* parse of the script raised has stored the fetched text under its path and
\* nothing else.  An operation queries the backend exactly if every earlier
\* operation of its kind for its path ended in such an error before it
\* stored anything.
C29_FailureBeforeStoreKeepsCache ==
    /\ (last.raised /\ ~(last.op = "compileExternalScript" /\ last.raises = "parser"))
           => cache = last.pre
    /\ (last.raised /\ last.op = "compileExternalScript" /\ last.raises = "parser")
           => /\ hasExternalScript(cache, last.resPath)
              /\ \E text \in Texts :
                     cache = [last.pre EXCEPT
                                 !.missing = storeExternalScript(
                                                 last.pre, last.resPath, text).missing]
    /\ \A i \in Served :
          Queried(i) <=> \A k \in EarlierFor(i) : KeptNothing(k)

\* A compileFragment of a path has fetched, parsed and stored after a
\* compileFragment of the same path in which the parser raised, and after a
\* compileExternalScript in which the parse of the fetched script raised.
C29_Witness ==
    /\ last.op = "compileFragment"
    /\ ~last.raised
    /\ hasFragment(cache, last.resPath)
    /\ ~hasFragment(last.pre, last.resPath)
    /\ \E k \in Served :
          /\ pipe.calls[k].op = "compileFragment"
          /\ pipe.calls[k].args[1] = last.resPath
          /\ RaisedAt(k, "parseFragment")
    /\ \E k \in Served :
          /\ pipe.calls[k].op = "compileExternalScript"
          /\ RaisedAt(k, "parseScript")

(***************************************************************************)
(* C30.  The path kept for created contents is the one createResource     *)
(* returned; a relink is answered from it and does not replace it.         *)
(***************************************************************************)
\* The first createResource call made for a digest since the last reset().
FirstCreate(hash) ==
    CHOOSE k \in CreatesOfHash(hash) : \A j \in CreatesOfHash(hash) : k <= j

\* The links served after the first createResource for a digest, the link
\* that made that call left out.
LaterLinks(hash) ==
    {i \in LinkCalls : /\ fastHashContent(LinkedContents(i)) = hash
                       /\ CreatesOfHash(hash) # {}
                       /\ i > FirstCreate(hash) + 1}

\* C30: since the last reset(), the created-resource cache holds a path for
\* a content digest exactly when createResource was called for it, and that
\* path is the one the first such call returned, whatever links followed.
\* Over a backend that defines reLinkCreatedResource, every later link of
\* that digest passes the kept path as originalResPath and returns what the
\* backend answers.
C30_FirstPathKept ==
    \A hash \in Hashes :
        /\ hasCreatedResource(cache, hash) <=> CreatesOfHash(hash) # {}
        /\ CreatesOfHash(hash) # {} =>
               getCreatedResource(cache, hash).resPath = pipe.calls[FirstCreate(hash)].result
        /\ pipe.reLinkCreatedResource =>
               \A i \in LaterLinks(hash) :
                   /\ pipe.calls[i - 1].op = "reLinkCreatedResource"
                   /\ pipe.calls[i - 1].args[4] = pipe.calls[FirstCreate(hash)].result
                   /\ pipe.calls[i].result = pipe.calls[i - 1].result

\* Three links of one digest over a backend with reLinkCreatedResource: the
\* second is answered a path other than the one createResource returned, the
\* third still passes the path createResource returned, and the cache holds
\* that path.
C30_Witness ==
    /\ pipe.reLinkCreatedResource
    /\ \E hash \in Hashes : \E i \in LaterLinks(hash) : \E j \in LaterLinks(hash) :
        /\ i < j
        /\ pipe.calls[i].result # pipe.calls[FirstCreate(hash)].result
        /\ pipe.calls[j - 1].op = "reLinkCreatedResource"
        /\ pipe.calls[j - 1].args[4] = pipe.calls[FirstCreate(hash)].result
        /\ getCreatedResource(cache, hash).resPath = pipe.calls[FirstCreate(hash)].result

====
